---------------------------- MODULE Spec2Model ----------------------------
(***************************************************************************)
(* remote-ssh-mcp: one invocation of CommandService.runCommand (the async  *)
(* generator of src/src/config/loader.ts), its ChunkQueue streaming        *)
(* bridge, the hook and telemetry collaborators, and SshTransport.execute  *)
(* (src/unnamed/part_001) driven by the events of the ssh2 client.         *)
(*                                                                         *)
(* JavaScript runs each continuation to completion, so one action is one   *)
(* synchronous run: from a resumption (a consumer pull, a settled promise, *)
(* an emitted event, a fired timer) to the next await or yield.            *)
(***************************************************************************)
EXTENDS Integers, Sequences, FiniteSets

(***************************************************************************)
(* Bounds of the model.                                                    *)
(***************************************************************************)
\* Output fragments the remote process produces during one invocation.
MaxChunks == 2
\* Output fragments each of two concurrent invocations produces.
MaxPairChunks == 1
\* Changes made to the configuration file while the watcher is in place.
MaxFileChanges == 2
\* push, close and next() calls made on a ChunkQueue driven on its own.
MaxBridgePushes == 3
MaxBridgeCloses == 2
MaxBridgeNexts == 4
\* Characters of a working directory given to applyCwd.
MaxDirLen == 3
\* Lines of a known_hosts file.
MaxStoreLines == 2

(***************************************************************************)
(* Data.                                                                   *)
(***************************************************************************)
\* HostConfig, reduced to the fields validation, the orchestrator and the
\* transport read. "unset" is an absent optional field. `auth` is auth.type and
\* authParam what comes with it: "keyPath" (privateKeyPath), "socket"
\* (agentSocketPath), "command" (a credentialCommand printing a password) or
\* "blankCommand" (a credentialCommand printing only whitespace).
HostWeb ==
    [alias |-> "web", host |-> "addr", username |-> "deploy", port |-> "22",
     auth |-> "ssh-agent", authParam |-> "unset", strictHostKeyChecking |-> "false"]
HostDb ==
    [alias |-> "db", host |-> "addr", username |-> "deploy", port |-> "22",
     auth |-> "ssh-key", authParam |-> "keyPath", strictHostKeyChecking |-> "true"]
HostDbReloaded ==
    [alias |-> "db", host |-> "addr", username |-> "deploy", port |-> "2222",
     auth |-> "credential-command", authParam |-> "command",
     strictHostKeyChecking |-> "unset"]
NoHost ==
    [alias |-> "", host |-> "unset", username |-> "unset", port |-> "unset",
     auth |-> "none", authParam |-> "unset", strictHostKeyChecking |-> "unset"]

\* RemoteServerConfig.hosts: registry snapshots handed to the service directly
\* (constructor or updateConfig), without passing through the loader.
ConfigA == <<HostWeb, HostDb>>
ConfigB == <<HostDbReloaded>>
Registries == {ConfigA, ConfigB}

\* Parsed configuration documents handed to coerceConfig: the `hosts` array as
\* written in the file. "" is an empty alias, "illtyped" a value of the wrong
\* type, port "0" a number out of range, unknownKeys a key the schema does not
\* declare ("none": there is none).
RawWeb ==
    [alias |-> "web", host |-> "addr", username |-> "deploy", port |-> "unset",
     auth |-> "ssh-agent", authParam |-> "unset", strictHostKeyChecking |-> "unset",
     unknownKeys |-> "none"]
RawWebSocket ==
    [RawWeb EXCEPT !.port = "2222", !.authParam = "socket",
                   !.strictHostKeyChecking = "false"]
RawDb ==
    [RawWeb EXCEPT !.alias = "db", !.auth = "ssh-key", !.authParam = "keyPath",
                   !.strictHostKeyChecking = "true"]
RawDbTwin ==
    [RawWeb EXCEPT !.alias = "db", !.auth = "credential-command",
                   !.authParam = "command"]
RawDbBlank == [RawDbTwin EXCEPT !.port = "2222", !.authParam = "blankCommand"]
RawNoAlias == [RawWeb EXCEPT !.alias = ""]
RawBadFlag == [RawWeb EXCEPT !.strictHostKeyChecking = "illtyped"]
RawNoUsername == [RawWeb EXCEPT !.username = "unset"]
RawKeyNoPath == [RawDb EXCEPT !.authParam = "unset"]
RawBadPort == [RawWeb EXCEPT !.port = "0"]
\* The example host entry of the README.
RawReadme ==
    [alias |-> "staging-web", host |-> "addr", username |-> "deploy",
     port |-> "unset", auth |-> "ssh-key", authParam |-> "keyPath",
     strictHostKeyChecking |-> "unset", unknownKeys |-> "timeoutMs"]
\* A host entry whose auth table has a key the auth schemas do not declare
\* (agentSocket, for agentSocketPath).
RawWebTypo == [RawWeb EXCEPT !.unknownKeys = "auth.agentSocket"]
RawConfigs ==
    {<<>>, <<RawWebSocket>>, <<RawWeb, RawDb>>, <<RawDb, RawDbTwin>>,
     <<RawDbBlank, RawWeb>>, <<RawNoAlias>>, <<RawWeb, RawBadFlag>>,
     <<RawNoUsername>>, <<RawKeyNoPath>>, <<RawBadPort>>, <<RawReadme>>,
     <<RawWebTypo, RawDb>>}

\* The configuration file: absent, present but not readable, readable but
\* not TOML, or a TOML document.
Files ==
    {[kind |-> k, doc |-> <<>>] : k \in {"missing", "unreadable", "unparsable"}}
    \cup {[kind |-> "toml", doc |-> raw] : raw \in RawConfigs}

\* The states the file goes through while the watcher is followed over
\* several reloads: the four ways a reload fails and two registries.
WatchedFiles ==
    {[kind |-> k, doc |-> <<>>] : k \in {"missing", "unreadable", "unparsable"}}
    \cup {[kind |-> "toml", doc |-> raw] :
             raw \in {<<RawWebSocket>>, <<RawWeb, RawDb>>, <<RawReadme>>}}

\* The `request: unknown` argument of runCommand, one abstract value per field.
BaseRequest ==
    [hostAlias |-> "web", command |-> "text", timeoutMs |-> "absent",
     stream |-> "absent", cwd |-> "absent", env |-> "absent"]
HostAliasValues == {"absent", "illtyped", "empty", "web", "db", "ghost"}
CommandValues == {"absent", "illtyped", "empty", "text"}
TimeoutMsValues == {"absent", "illtyped", "fraction", "zero", "negative", "positiveInt"}
StreamValues == {"absent", "illtyped", "true", "false"}
CwdValues == {"absent", "illtyped", "text"}
EnvValues == {"absent", "illtyped", "stringMap"}
Requests ==
    {[BaseRequest EXCEPT !.hostAlias = a, !.stream = s] :
        a \in HostAliasValues, s \in StreamValues}
    \cup {[BaseRequest EXCEPT !.command = c] : c \in CommandValues}
    \cup {[BaseRequest EXCEPT !.timeoutMs = t, !.stream = "true"] : t \in TimeoutMsValues}
    \cup {[BaseRequest EXCEPT !.cwd = c] : c \in CwdValues}
    \cup {[BaseRequest EXCEPT !.env = e] : e \in EnvValues}

ExitCodes == {"0", "1", "null"}
ChunkTypes == {"stdout", "stderr"}
NoChunk == [type |-> "none", n |-> 0]
NoResult == [exitCode |-> "null", stdout |-> <<>>, stderr |-> <<>>, timedOut |-> FALSE]

\* IteratorResult<T> handed to the generator suspended in queue.next().
NoWake == [kind |-> "none", value |-> NoChunk]
WakeDone == [kind |-> "done", value |-> NoChunk]
WakeValue(v) == [kind |-> "value", value |-> v]

\* Strings whose characters matter are sequences of one-character strings.
\* An optional string (string | undefined) is a record.
Absent == [present |-> FALSE, text |-> <<>>]
Some(t) == [present |-> TRUE, text |-> t]
SeqsUpTo(S, n) == UNION {[1..k -> S] : k \in 0..n}

\* cwd.replace(/'/g, "'\\''"): every single quote becomes the four
\* characters quote, backslash, quote, quote.
RECURSIVE escapeQuotes(_)
escapeQuotes(s) ==
    IF s = <<>>
    THEN <<>>
    ELSE (IF Head(s) = "'" THEN <<"'", "\\", "'", "'">> ELSE <<Head(s)>>)
         \o escapeQuotes(Tail(s))

\* applyCwd(command, cwd): !cwd is true of undefined and of the empty string.
applyCwd(command, cwd) ==
    IF ~cwd.present \/ cwd.text = <<>>
    THEN command
    ELSE <<"c", "d", " ", "'">> \o escapeQuotes(cwd.text)
         \o <<"'", " ", "&", "&", " ">> \o command

\* options.cwd ?? host.workingDirectory: the default is taken only when the
\* request's cwd is undefined.
selectCwd(cwd, workingDirectory) == IF cwd.present THEN cwd ELSE workingDirectory

\* The inputs of applyCwd: the request's cwd is any string (z.string()
\* .optional()), the host's workingDirectory has at least one character.
Directories == SeqsUpTo({"a", "'", " ", "\\"}, MaxDirLen)
CommandTexts == {<<"l", "s">>, <<"e", " ", "'", "x", "'">>}
WorkingDirectories == {Absent, Some(<<"/", "s">>), Some(<<"'", "s">>)}
NewExecCommand ==
    [command |-> <<>>, cwd |-> Absent, workingDirectory |-> Absent,
     sent |-> <<>>, stage |-> "none"]

(***************************************************************************)
(* The known_hosts file and the host verifier.                             *)
(***************************************************************************)
Blanks == {" ", "\t", "\r"}

\* String.prototype.split with a one-character separator.
RECURSIVE split(_, _)
split(s, c) ==
    IF \A i \in 1..Len(s) : s[i] # c
    THEN <<s>>
    ELSE LET i == CHOOSE j \in 1..Len(s) :
                     s[j] = c /\ \A k \in 1..(j - 1) : s[k] # c
         IN  <<SubSeq(s, 1, i - 1)>> \o split(SubSeq(s, i + 1, Len(s)), c)

\* String.prototype.trim
RECURSIVE trim(_)
trim(s) ==
    IF s = <<>>
    THEN s
    ELSE IF s[1] \in Blanks
         THEN trim(Tail(s))
         ELSE IF s[Len(s)] \in Blanks
              THEN trim(SubSeq(s, 1, Len(s) - 1))
              ELSE s

\* trimmed.split(/\s+/) of a text that neither starts nor ends with a blank.
RECURSIVE splitBlanks(_)
splitBlanks(s) ==
    IF \A i \in 1..Len(s) : s[i] \notin Blanks
    THEN <<s>>
    ELSE LET i == CHOOSE j \in 1..Len(s) :
                     s[j] \in Blanks /\ \A k \in 1..(j - 1) : s[k] \notin Blanks
             j == CHOOSE k \in (i + 1)..Len(s) :
                     s[k] \notin Blanks /\ \A m \in i..(k - 1) : s[m] \in Blanks
         IN  <<SubSeq(s, 1, i - 1)>> \o splitBlanks(SubSeq(s, j, Len(s)))

\* The loop body of loadKnownHostsEntries: what one line adds to `entries`.
lineEntries(line) ==
    LET trimmed == trim(line)
        parts == splitBlanks(trimmed)
        startsWith(s, c) == s # <<>> /\ s[1] = c
    IN  IF trimmed = <<>> \/ startsWith(trimmed, "#")
        THEN <<>>
        ELSE IF startsWith(trimmed, "@") \/ startsWith(trimmed, "|")
             THEN <<>>
             ELSE IF Len(parts) < 3
                  THEN <<>>
                  ELSE IF parts[1] = <<>> \/ parts[3] = <<>>
                       THEN <<>>
                       ELSE <<[hostnames |-> split(parts[1], ","), key |-> parts[3]]>>

\* loadKnownHostsEntries on the text of an existing file.
loadKnownHostsEntries(raw) ==
    LET RECURSIVE entriesOf(_)
        entriesOf(lines) ==
            IF lines = <<>>
            THEN <<>>
            ELSE lineEntries(Head(lines)) \o entriesOf(Tail(lines))
    IN  entriesOf(split(raw, "\n"))

\* `${port}`: the decimal digits of a number.
RECURSIVE toDecimal(_)
toDecimal(n) ==
    LET Digits == <<"0", "1", "2", "3", "4", "5", "6", "7", "8", "9">>
    IN  IF n < 10
        THEN <<Digits[n + 1]>>
        ELSE toDecimal(n \div 10) \o <<Digits[(n % 10) + 1]>>

DefaultPort == 22

\* buildHostCandidates: the names a known_hosts entry may carry for the host.
buildHostCandidates(h) ==
    LET hostname == h.host
        port == toDecimal(IF h.port.present THEN h.port.n ELSE DefaultPort)
    IN  {hostname,
         hostname \o <<":">> \o port,
         <<"[">> \o hostname \o <<"]", ":">> \o port,
         h.alias} \ {<<>>}

\* key.toString('base64') of a Buffer given as its bytes.
RECURSIVE base64(_)
base64(bytes) ==
    LET Alphabet ==
           <<"A", "B", "C", "D", "E", "F", "G", "H", "I", "J", "K", "L", "M",
             "N", "O", "P", "Q", "R", "S", "T", "U", "V", "W", "X", "Y", "Z",
             "a", "b", "c", "d", "e", "f", "g", "h", "i", "j", "k", "l", "m",
             "n", "o", "p", "q", "r", "s", "t", "u", "v", "w", "x", "y", "z",
             "0", "1", "2", "3", "4", "5", "6", "7", "8", "9", "+", "/">>
        Char(n) == Alphabet[(n % 64) + 1]
    IN  CASE Len(bytes) = 0 -> <<>>
          [] Len(bytes) = 1 ->
                LET n == bytes[1] * 65536
                IN  <<Char(n \div 262144), Char(n \div 4096), "=", "=">>
          [] Len(bytes) = 2 ->
                LET n == bytes[1] * 65536 + bytes[2] * 256
                IN  <<Char(n \div 262144), Char(n \div 4096), Char(n \div 64), "=">>
          [] OTHER ->
                LET n == bytes[1] * 65536 + bytes[2] * 256 + bytes[3]
                IN  <<Char(n \div 262144), Char(n \div 4096), Char(n \div 64), Char(n)>>
                    \o base64(SubSeq(bytes, 4, Len(bytes)))

\* Variant: the entry that decides is the first one naming the host.
verifierAcceptsFirstNamed(entries, candidates, key) ==
    LET named == {i \in 1..Len(entries) :
                     \E k \in 1..Len(entries[i].hostnames) :
                        entries[i].hostnames[k] \in candidates}
    IN  /\ named # {}
        /\ entries[CHOOSE i \in named : \A j \in named : i <= j].key = base64(key)

\* The predicate createHostVerifier returns, applied to a presented key.
verifierAccepts(entries, candidates, key) ==
    \E i \in 1..Len(entries) :
       /\ \E k \in 1..Len(entries[i].hostnames) :
             entries[i].hostnames[k] \in candidates
       /\ entries[i].key = base64(key)

\* The lines of a known_hosts file, each with what it is made of, and the
\* text of the line.
HostAddress == <<"h">>
HostAlias == <<"w">>
HostKeys == {<<0>>, <<1>>, <<0, 1>>, <<255, 255, 254>>}
StoreLines ==
    LET OtherHost == <<"x">>
        StoreLine(kind, names, key) == [kind |-> kind, names |-> names, key |-> key]
    IN
    {StoreLine("entry", <<HostAddress>>, base64(<<0>>)),
     StoreLine("entry", <<HostAddress>>, base64(<<1>>)),
     StoreLine("entry", <<OtherHost, HostAlias>>, base64(<<0, 1>>)),
     StoreLine("entry", <<<<"[", "h", "]", ":", "2", "2", "2", "2">>>>, base64(<<1>>)),
     StoreLine("entry", <<<<"h", ":", "2", "2">>>>, base64(<<255, 255, 254>>)),
     StoreLine("entry", <<OtherHost>>, base64(<<0>>)),
     StoreLine("entry", <<HostAddress>>, <<"A", "A">>),
     StoreLine("indented", <<HostAlias>>, base64(<<1>>)),
     StoreLine("comment", <<HostAddress>>, base64(<<0>>)),
     StoreLine("blank", <<>>, <<>>),
     StoreLine("marker", <<HostAddress>>, base64(<<0>>)),
     StoreLine("hashed", <<HostAddress>>, base64(<<0>>)),
     StoreLine("short", <<HostAddress>>, base64(<<0>>))}

RECURSIVE join(_, _)
join(texts, sep) ==
    IF texts = <<>>
    THEN <<>>
    ELSE IF Len(texts) = 1
         THEN texts[1]
         ELSE texts[1] \o sep \o join(Tail(texts), sep)

LineText(l) ==
    LET fields == join(l.names, <<",">>) \o <<" ", "t", " ">> \o l.key
    IN  CASE l.kind = "entry" -> fields
          [] l.kind = "indented" -> <<" ", "\t">> \o fields \o <<" ", "c", "\r">>
          [] l.kind = "comment" -> <<"#", " ">> \o fields
          [] l.kind = "blank" -> <<" ">>
          [] l.kind = "marker" -> <<"@", "r", " ">> \o fields
          [] l.kind = "hashed" -> <<"|", "1", "|">> \o fields
          [] OTHER -> join(l.names, <<",">>) \o <<" ">> \o l.key

FileText(store) == join([i \in 1..Len(store) |-> LineText(store[i])], <<"\n">>)

NoPort == [present |-> FALSE, n |-> 0]
VerifiedHosts ==
    {[alias |-> HostAlias, host |-> HostAddress, port |-> NoPort,
      strictHostKeyChecking |-> "true"],
     [alias |-> HostAlias, host |-> HostAddress, port |-> [present |-> TRUE, n |-> 2222],
      strictHostKeyChecking |-> "unset"],
     [alias |-> HostAlias, host |-> HostAddress, port |-> NoPort,
      strictHostKeyChecking |-> "false"]}

NewKnownHosts ==
    [stage |-> "none", store |-> <<>>, raw |-> <<>>,
     host |-> [alias |-> <<>>, host |-> <<>>, port |-> NoPort,
               strictHostKeyChecking |-> "false"],
     entries |-> <<>>, candidates |-> {}, key |-> <<>>, accepted |-> FALSE]

\* Calls made to the hooks and to the telemetry logger, and the chunks the
\* sink was handed, in order.
NoCalls ==
    [before |-> 0, after |-> 0, error |-> 0,
     logStart |-> 0, logChunk |-> 0, logResult |-> 0, logError |-> 0,
     chunks |-> <<>>]

\* Two concurrent runCommand calls on one CommandService, and the locals
\* each call creates: the generator's position, queue and pending next(), the
\* items it yielded, and the Client, stream, timer, ExecutionState and promise
\* of its transport.execute call.
Invocations == {"a", "b"}
\* The aliases each call may name: the two calls are interchangeable, so the
\* first names web and the second either host (same host, different hosts).
PairAliases == [a |-> {"web"}, b |-> {"web", "db"}]
NewInvocation ==
    [pc |-> "created", host |-> NoHost, hasQueue |-> FALSE,
     queue |-> [items |-> <<>>, pending |-> FALSE, closed |-> FALSE],
     wake |-> NoWake, closeReaction |-> "none", out |-> <<>>, outcome |-> "none",
     tpc |-> "idle", conn |-> "none", chan |-> "none", timer |-> "unset",
     state |-> [stdout |-> <<>>, stderr |-> <<>>, timedOut |-> FALSE],
     nPushed |-> 0, execState |-> "pending", execValue |-> NoResult]

(***************************************************************************)
(* Pure functions of the source.                                           *)
(***************************************************************************)
\* runCommandArgsShape: the zod shape of a request.
hostAliasShape(v) == v \notin {"absent", "illtyped", "empty"}
commandShape(v) == v \notin {"absent", "illtyped", "empty"}
\* Variant: z.number().int().nonnegative(), which lets 0 through.
timeoutMsShapeNonNegative(v) == v \in {"absent", "positiveInt", "zero"}
timeoutMsShape(v) == v \in {"absent", "positiveInt"}
streamShape(v) == v \in {"absent", "true", "false"}
cwdShape(v) == v \in {"absent", "text"}
envShape(v) == v \in {"absent", "stringMap"}

\* runCommandRequestSchema.safeParse(request).success
runCommandRequestSchema(r) ==
    /\ hostAliasShape(r.hostAlias)
    /\ commandShape(r.command)
    /\ timeoutMsShape(r.timeoutMs)
    /\ streamShape(r.stream)
    /\ cwdShape(r.cwd)
    /\ envShape(r.env)

\* hostConfigSchema and remoteServerConfigSchema: safeParse(input).success
\* authSchema: the discriminated union on auth.type.
authSchema(h) ==
    CASE h.auth = "ssh-key" -> h.authParam = "keyPath"
      [] h.auth = "ssh-agent" -> h.authParam \in {"unset", "socket"}
      [] h.auth = "credential-command" -> h.authParam \in {"command", "blankCommand"}
      [] OTHER -> FALSE

\* The object is strict, the auth objects inside it are not: a key it does
\* not declare is an issue at the level of the host, and is dropped without
\* one inside the auth table.
hostConfigSchema(h) ==
    /\ h.alias # ""
    /\ h.host # "unset"
    /\ h.port \in {"unset", "2222"}
    /\ h.username # "unset"
    /\ authSchema(h)
    /\ h.strictHostKeyChecking \in {"unset", "true", "false"}
    /\ h.unknownKeys \in {"none", "auth.agentSocket"}

remoteServerConfigSchema(raw) ==
    /\ Len(raw) > 0
    /\ \A i \in 1..Len(raw) : hostConfigSchema(raw[i])

\* coerceConfig: throws on a schema violation (ok is FALSE), otherwise every
\* host is returned with its defaults filled in.
coerceConfig(raw) ==
    IF ~remoteServerConfigSchema(raw)
    THEN [ok |-> FALSE, hosts |-> <<>>]
    ELSE [ok |-> TRUE,
          hosts |-> [i \in 1..Len(raw) |->
                       [alias |-> raw[i].alias,
                        host |-> raw[i].host,
                        username |-> raw[i].username,
                        port |-> IF raw[i].port = "unset" THEN "22" ELSE raw[i].port,
                        auth |-> raw[i].auth,
                        authParam |-> raw[i].authParam,
                        strictHostKeyChecking |->
                            IF raw[i].strictHostKeyChecking = "unset"
                            THEN "false"
                            ELSE raw[i].strictHostKeyChecking]]]

\* What loadConfig returns for the documents it accepts.
LoadedRegistries == {coerceConfig(raw).hosts : raw \in {r \in RawConfigs : coerceConfig(r).ok}}

\* fileExists: fs.access with F_OK, any failure is "no".
fileExists(f) == f.kind # "missing"

\* wrapError: whatever was thrown becomes the cause of a ConfigLoadError.
wrapError(err) == "ConfigLoadError"

\* loadConfig when fileExists said no.
loadConfigMissing(allowMissing) ==
    IF allowMissing
    THEN [error |-> "none", hosts |-> <<>>]
    ELSE [error |-> "ConfigLoadError", hosts |-> <<>>]

\* loadConfig from readFile on: read, parse, validate. f is the file as it is
\* when it is read.
loadConfigContents(f) ==
    IF f.kind \in {"missing", "unreadable"}
    THEN [error |-> wrapError("SystemError"), hosts |-> <<>>]
    ELSE IF f.kind = "unparsable"
         THEN [error |-> wrapError("TomlError"), hosts |-> <<>>]
         ELSE IF coerceConfig(f.doc).ok
              THEN [error |-> "none", hosts |-> coerceConfig(f.doc).hosts]
              ELSE [error |-> wrapError("Error"), hosts |-> <<>>]

\* Variant: installing the content already installed clears the registry.
updateConfigToggles(current, next) == IF next = current THEN <<>> ELSE next

\* CommandService.updateConfig: this.config = config.
updateConfig(current, next) == next

Min(S) == CHOOSE x \in S : \A y \in S : x <= y

\* Variant: an unknown alias falls back to the first host of the registry.
findHostDefaultFirst(cfg, alias) ==
    LET hits == {i \in 1..Len(cfg) : cfg[i].alias = alias}
    IN  IF hits = {} THEN cfg[1] ELSE cfg[Min(hits)]

\* CommandService.findHost: the first entry with that alias, or none.
findHost(cfg, alias) ==
    LET hits == {i \in 1..Len(cfg) : cfg[i].alias = alias}
    IN  IF hits = {} THEN NoHost ELSE cfg[Min(hits)]

\* enrichError: a RemoteTransportError keeps its code, anything else ("raw")
\* is wrapped with the code of the phase.
enrichError(error, code) == IF error = "raw" THEN code ELSE error

\* ChunkQueue: the queue object is [items, pending, closed]; a method returns
\* the object after the call and what it resolved for the suspended consumer.
NewChunkQueue == [items |-> <<>>, pending |-> FALSE, closed |-> FALSE]

\* Variant: push puts the item at the front of the buffer.
ChunkQueuePushFront(q, w, v) ==
    IF q.closed THEN [queue |-> q, wake |-> w]
    ELSE IF q.pending
         THEN [queue |-> [q EXCEPT !.pending = FALSE], wake |-> WakeValue(v)]
         ELSE [queue |-> [q EXCEPT !.items = <<v>> \o @], wake |-> w]

\* Variant: push always buffers and leaves a waiter suspended.
ChunkQueuePushBuffersOnly(q, w, v) ==
    IF q.closed THEN [queue |-> q, wake |-> w]
    ELSE [queue |-> [q EXCEPT !.items = Append(@, v)], wake |-> w]

\* Variant: push does not test the closed flag.
ChunkQueuePushIgnoresClosed(q, w, v) ==
    IF q.pending
    THEN [queue |-> [q EXCEPT !.pending = FALSE], wake |-> WakeValue(v)]
    ELSE [queue |-> [q EXCEPT !.items = Append(@, v)], wake |-> w]

ChunkQueuePush(q, w, v) ==
    IF q.closed THEN [queue |-> q, wake |-> w]
    ELSE IF q.pending
         THEN [queue |-> [q EXCEPT !.pending = FALSE], wake |-> WakeValue(v)]
         ELSE [queue |-> [q EXCEPT !.items = Append(@, v)], wake |-> w]

\* Variant: close sets the flag and leaves the waiter alone.
ChunkQueueCloseFlagOnly(q, w) ==
    [queue |-> [q EXCEPT !.closed = TRUE], wake |-> w]

ChunkQueueClose(q, w) ==
    IF q.closed THEN [queue |-> q, wake |-> w]
    ELSE IF q.pending
         THEN [queue |-> [q EXCEPT !.closed = TRUE, !.pending = FALSE], wake |-> WakeDone]
         ELSE [queue |-> [q EXCEPT !.closed = TRUE], wake |-> w]

\* Variant: next() tests the closed flag before the buffer, so a close drops
\* what is still buffered.
ChunkQueueNextClosedFirst(q) ==
    IF q.closed
    THEN [queue |-> q, result |-> WakeDone]
    ELSE IF Len(q.items) > 0
         THEN [queue |-> [q EXCEPT !.items = Tail(@)],
               result |-> WakeValue(Head(q.items))]
         ELSE [queue |-> [q EXCEPT !.pending = TRUE], result |-> NoWake]

\* next(): result "none" is the promise left pending (the waiter is recorded).
ChunkQueueNext(q) ==
    IF Len(q.items) > 0
    THEN [queue |-> [q EXCEPT !.items = Tail(@)], result |-> WakeValue(Head(q.items))]
    ELSE IF q.closed
         THEN [queue |-> q, result |-> WakeDone]
         ELSE [queue |-> [q EXCEPT !.pending = TRUE], result |-> NoWake]

\* A ChunkQueue with the producer and the consumer that use it. queue and
\* wake are the object and what it resolved for the consumer; consumer is
\* "idle" (between two next() calls), "suspended" (awaiting a pending
\* promise) or "resuming" (its promise is resolved, its continuation has not
\* run yet). The other fields record what was done: the push, close and
\* next() calls made, the items pushed before and after close, the items
\* and the end-of-sequence results next() returned, the waiters close
\* resolved and the items in the buffer when close took effect.
NewBridge ==
    [queue |-> NewChunkQueue, wake |-> NoWake, consumer |-> "idle",
     pushes |-> 0, closes |-> 0, nexts |-> 0,
     accepted |-> <<>>, dropped |-> {}, delivered |-> <<>>, ends |-> 0,
     wokenByClose |-> 0, bufferedAtClose |-> 0]

\* watchConfig right after it returned, on file f: the first safeInvoke is
\* awaiting fileExists, and chokidar (ignoreInitial: false) has an 'add' to
\* emit if the file is there. loads are the safeInvoke calls in flight, in
\* the order they were started, each at the await it is suspended on
\* ("access": fileExists; "read": readFile issued; "deliver": readFile has
\* read `content` and its completion is queued) and marked if none was
\* started after it. last is what the latest one to finish read and did,
\* installed the argument of the latest handler call, newestInstalled
\* whether the most recently started load has called the handler, and
\* handledAfterClose counts the handler calls made after close().
NoFile == [kind |-> "none", doc |-> <<>>]
NoLoad == [source |-> NoFile, error |-> "none", hosts |-> <<>>]
NewLoad == [stage |-> "access", content |-> NoFile, newest |-> TRUE]
NewWatch(f, allowMissing) ==
    [file |-> f, allowMissing |-> allowMissing, changes |-> 0,
     pendingEvent |-> fileExists(f), timer |-> "none", closed |-> FALSE,
     loads |-> <<NewLoad>>, handlerCalls |-> 0, onErrors |-> 0,
     last |-> NoLoad, installed |-> <<>>, newestInstalled |-> FALSE,
     handledAfterClose |-> 0]

(***************************************************************************)
(* State.                                                                  *)
(***************************************************************************)
VARIABLES
    config,          \* CommandService.config, the current registry snapshot
    loaded,          \* whether that snapshot was returned by loadConfig
    pc,              \* where the runCommand generator is suspended
    request,         \* the argument runCommand was called with
    input,           \* parsed.data
    host,            \* context.host
    caught,          \* the error the catch block holds
    outcome,         \* how the generator ended, as its consumer sees it
    errKind,         \* the kind of the error propagated to the consumer
    out,             \* the items yielded to the consumer, in order
    calls,           \* invocations of the hooks and of the telemetry logger
    lookups,         \* findHost calls
    executeCalls,    \* Transport.execute calls
    hasQueue,        \* queue !== null
    queue,           \* the ChunkQueue
    wake,            \* what the pending next() promise was resolved with
    closeReaction,   \* executionPromise.then(close).catch(close)
    tpc,             \* where SshTransport.execute stands
    execState,       \* executionPromise: pending, resolved, rejected
    execValue,       \* the CommandExecutionResult it resolved with
    execErr,         \* the code of the error it rejected with
    failure,         \* the event that made it reject
    conn,            \* the ssh2 Client connection
    chan,            \* the exec channel (stream)
    timer,           \* timeoutId
    state,           \* ExecutionState: stdout, stderr, timedOut
    nPushed,         \* chunks handed to the collector so far
    pushedAtSettle,  \* nPushed when executionPromise settled
    authActs,        \* resolveAuthConfig runs
    storeReads,      \* loadKnownHostsEntries runs
    connectAttempts, \* ssh.connect calls
    hostVerifier,    \* connectConfig.hostVerifier
    execRequests,    \* ssh.exec calls
    envStore,        \* the trusted-key store file on disk
    envCreds,        \* whether the environment offers credential material
    invocations,     \* two concurrent runCommand calls, each with its locals
    watch,           \* the configuration file, its watcher and the loads in flight
    bridge,          \* a ChunkQueue driven directly by a producer and a consumer
    execCommand,     \* execute's command, the directories and the text given to ssh.exec
    knownHosts       \* a known_hosts file, the host checked against it and the verifier

svcVars == <<config, loaded>>
genVars == <<pc, request, input, host, caught, outcome, errKind, out>>
obsVars == <<calls, lookups, executeCalls>>
queueVars == <<hasQueue, queue, wake, closeReaction>>
promiseVars == <<execState, execValue, execErr, failure, pushedAtSettle>>
sshVars ==
    <<tpc, conn, chan, timer, state, nPushed, authActs, storeReads, connectAttempts,
      hostVerifier, execRequests>>
envVars == <<envStore, envCreds>>
pairVars == <<invocations>>
watchVars == <<watch>>
bridgeVars == <<bridge>>
textVars == <<execCommand, knownHosts>>
vars ==
    <<svcVars, genVars, obsVars, queueVars, promiseVars, sshVars, envVars, pairVars,
      watchVars, bridgeVars, textVars>>

InitService ==
    /\ loaded \in BOOLEAN
    /\ config \in (IF loaded THEN LoadedRegistries ELSE Registries)
    /\ pc = "created"
    /\ request = BaseRequest
    /\ input = BaseRequest
    /\ host = NoHost
    /\ caught = "none"
    /\ outcome = "none"
    /\ errKind = "none"
    /\ out = <<>>
    /\ calls = NoCalls
    /\ lookups = 0
    /\ executeCalls = 0
    /\ hasQueue = FALSE
    /\ queue = NewChunkQueue
    /\ wake = NoWake
    /\ closeReaction = "none"
    /\ tpc = "idle"
    /\ execState = "pending"
    /\ execValue = NoResult
    /\ execErr = "none"
    /\ failure = "none"
    /\ conn = "none"
    /\ chan = "none"
    /\ timer = "unset"
    /\ state = [stdout |-> <<>>, stderr |-> <<>>, timedOut |-> FALSE]
    /\ nPushed = 0
    /\ pushedAtSettle = 0
    /\ authActs = 0
    /\ storeReads = 0
    /\ connectAttempts = 0
    /\ hostVerifier = "none"
    /\ execRequests = 0
    /\ envStore \in {"missing", "empty", "entries"}
    /\ envCreds \in {"ok", "unavailable"}
    /\ invocations = [i \in Invocations |-> NewInvocation]

InitText ==
    /\ execCommand = NewExecCommand
    /\ knownHosts = NewKnownHosts

Init ==
    /\ InitService
    /\ watch = NewWatch([kind |-> "toml", doc |-> <<RawWeb, RawDb>>], FALSE)
    /\ bridge = NewBridge
    /\ InitText


(***************************************************************************)
(* CommandService: updateConfig and the runCommand generator.              *)
(***************************************************************************)
\* Variant: a reload also re-resolves the host of the invocation in flight.
UpdateConfigRebinds ==
    /\ \E l \in BOOLEAN :
          \E c \in (IF l THEN LoadedRegistries ELSE Registries) :
             /\ config' = c
             /\ loaded' = l
             /\ host' = IF host = NoHost THEN host ELSE findHost(c, input.hostAlias)
    /\ UNCHANGED <<pc, request, input, caught, outcome, errKind, out>>
    /\ UNCHANGED <<obsVars, queueVars, promiseVars, sshVars, envVars, pairVars, watchVars, bridgeVars, textVars>>

\* updateConfig(config): the snapshot is replaced wholesale, by the watcher's
\* change handler with a loaded registry or by any other caller.
UpdateConfig ==
    /\ \E l \in BOOLEAN :
          \E c \in (IF l THEN LoadedRegistries ELSE Registries) :
             config' = updateConfig(config, c) /\ loaded' = l
    /\ UNCHANGED <<genVars, obsVars, queueVars, promiseVars, sshVars, envVars, pairVars, watchVars, bridgeVars, textVars>>

\* Variant: the error is swallowed and the generator returns normally.
PropagateSwallowed(kind) ==
    /\ pc' = "done"
    /\ outcome' = "finished"
    /\ errKind' = kind

\* The generator ends by throwing: its consumer's next() rejects.
Propagate(kind) ==
    /\ pc' = "done"
    /\ outcome' = "error"
    /\ errKind' = kind

\* Variant: the sink forwards every chunk to the bridge tagged stdout.
collectorPushRetags(chunk) ==
    /\ calls' = [calls EXCEPT !.logChunk = @ + 1, !.chunks = Append(@, chunk)]
    /\ IF hasQueue
       THEN LET r == ChunkQueuePush(queue, wake, [chunk EXCEPT !.type = "stdout"])
            IN  queue' = r.queue /\ wake' = r.wake
       ELSE UNCHANGED <<queue, wake>>

\* Variant: the sink logs a chunk only when it does not stream it.
collectorPushEitherOr(chunk) ==
    IF hasQueue
    THEN LET r == ChunkQueuePush(queue, wake, chunk)
         IN  queue' = r.queue /\ wake' = r.wake /\ UNCHANGED calls
    ELSE calls' = [calls EXCEPT !.logChunk = @ + 1, !.chunks = Append(@, chunk)] /\ UNCHANGED <<queue, wake>>

\* Variant: the sink pushes into a bridge whether or not streaming was asked.
collectorPushAlways(chunk) ==
    /\ calls' = [calls EXCEPT !.logChunk = @ + 1, !.chunks = Append(@, chunk)]
    /\ LET r == ChunkQueuePush(queue, wake, chunk)
       IN  queue' = r.queue /\ wake' = r.wake

\* collector.push (the sink): always log the chunk, push it when streaming.
\* logCommandChunk is taken to return normally: it runs inside an ssh2 event
\* listener, where a throw is not a promise rejection of this invocation.
collectorPush(chunk) ==
    /\ calls' = [calls EXCEPT !.logChunk = @ + 1, !.chunks = Append(@, chunk)]
    /\ IF hasQueue
       THEN LET r == ChunkQueuePush(queue, wake, chunk)
            IN  queue' = r.queue /\ wake' = r.wake
       ELSE UNCHANGED <<queue, wake>>

\* The generator continues with the IteratorResult of queue.next(): it yields
\* the chunk, leaves the loop on done, or stays suspended on the promise.
ContinueLoop(result) ==
    /\ pc' = CASE result.kind = "value" -> "yieldedChunk"
               [] result.kind = "done" -> "finalize"
               [] OTHER -> "awaitNext"
    /\ out' = IF result.kind = "value"
              THEN Append(out, [kind |-> "chunk", type |-> result.value.type,
                                n |-> result.value.n])
              ELSE out

\* catch (err): close the bridge, call the error hook and wait for it.
\* `c` is the call record as the try block left it.
EnterCatch(err, c) ==
    /\ IF hasQueue
       THEN LET r == ChunkQueueClose(queue, wake)
            IN  queue' = r.queue /\ wake' = r.wake
       ELSE UNCHANGED <<queue, wake>>
    /\ caught' = err
    /\ calls' = [c EXCEPT !.error = @ + 1]
    /\ pc' = "runError"

\* The consumer's first next(): validation, findHost, context and metadata,
\* then hooks.runBefore is called and awaited.
Start ==
    /\ pc = "created"
    /\ \E r \in Requests :
          /\ request' = r
          /\ IF ~runCommandRequestSchema(r)
             THEN /\ Propagate("config")
                  /\ UNCHANGED <<input, host, calls, lookups>>
             ELSE /\ lookups' = lookups + 1
                  /\ IF findHost(config, r.hostAlias) = NoHost
                     THEN /\ Propagate("config")
                          /\ UNCHANGED <<input, host, calls>>
                     ELSE /\ input' = r
                          /\ host' = findHost(config, r.hostAlias)
                          /\ calls' = [calls EXCEPT !.before = @ + 1]
                          /\ pc' = "runBefore"
                          /\ UNCHANGED <<outcome, errKind>>
    /\ UNCHANGED <<caught, out, executeCalls>>
    /\ UNCHANGED <<svcVars, queueVars, promiseVars, sshVars, envVars, pairVars, watchVars, bridgeVars, textVars>>

\* Variant: the start event is logged and transport.execute called before the
\* outcome of the before hook is looked at.
BeforeHookSettlesExecutesFirst ==
    /\ pc = "runBefore"
    /\ calls' = [calls EXCEPT !.logStart = @ + 1]
    /\ executeCalls' = executeCalls + 1
    /\ Propagate("beforeHook")
    /\ UNCHANGED <<hasQueue, queue, closeReaction, tpc, authActs, out>>
    /\ UNCHANGED <<request, input, host, caught, lookups, wake>>
    /\ UNCHANGED <<svcVars, promiseVars, envVars, pairVars, watchVars, bridgeVars, textVars>>
    /\ UNCHANGED <<conn, chan, timer, state, nPushed, storeReads, connectAttempts,
                   hostVerifier, execRequests>>

\* runBefore settles. On success: logCommandStart, the queue and the sink are
\* built, transport.execute is called (it runs up to its first await, inside
\* resolveAuthConfig), the close reaction is registered and the drain loop
\* makes its first queue.next() call.
BeforeHookSettles ==
    /\ pc = "runBefore"
    /\ \E hookOk \in BOOLEAN, logOk \in BOOLEAN :
          IF ~hookOk
          THEN /\ Propagate("beforeHook")
               /\ UNCHANGED <<calls, executeCalls, hasQueue, queue, closeReaction,
                              tpc, authActs, out>>
          ELSE /\ calls' = [calls EXCEPT !.logStart = @ + 1]
               /\ IF ~logOk
                  THEN /\ Propagate("logStart")
                       /\ UNCHANGED <<executeCalls, hasQueue, queue, closeReaction,
                                      tpc, authActs, out>>
                  ELSE /\ executeCalls' = executeCalls + 1
                       /\ tpc' = "resolveAuth"
                       /\ authActs' = authActs + 1
                       /\ UNCHANGED <<outcome, errKind>>
                       /\ IF input.stream = "true"
                          THEN LET r == ChunkQueueNext(NewChunkQueue)
                               IN  /\ hasQueue' = TRUE
                                   /\ queue' = r.queue
                                   /\ closeReaction' = "registered"
                                   /\ ContinueLoop(r.result)
                          ELSE /\ pc' = "finalize"
                               /\ UNCHANGED <<hasQueue, queue, closeReaction, out>>
    /\ UNCHANGED <<request, input, host, caught, lookups, wake>>
    /\ UNCHANGED <<svcVars, promiseVars, envVars, pairVars, watchVars, bridgeVars, textVars>>
    /\ UNCHANGED <<conn, chan, timer, state, nPushed, storeReads, connectAttempts,
                   hostVerifier, execRequests>>

\* Variant: the bridge is closed only when the transport call resolves.
CloseOnSettleThenOnly ==
    /\ closeReaction = "registered"
    /\ execState # "pending"
    /\ closeReaction' = "ran"
    /\ IF execState = "resolved"
       THEN LET r == ChunkQueueClose(queue, wake)
            IN  queue' = r.queue /\ wake' = r.wake
       ELSE UNCHANGED <<queue, wake>>
    /\ UNCHANGED hasQueue
    /\ UNCHANGED <<svcVars, genVars, obsVars, promiseVars, sshVars, envVars, pairVars, watchVars, bridgeVars, textVars>>

\* executionPromise.then(() => queue.close()).catch(() => queue.close())
CloseOnSettle ==
    /\ closeReaction = "registered"
    /\ execState # "pending"
    /\ closeReaction' = "ran"
    /\ LET r == ChunkQueueClose(queue, wake)
       IN  queue' = r.queue /\ wake' = r.wake
    /\ UNCHANGED hasQueue
    /\ UNCHANGED <<svcVars, genVars, obsVars, promiseVars, sshVars, envVars, pairVars, watchVars, bridgeVars, textVars>>

\* The pending next() promise was resolved: the generator resumes in the loop.
LoopResumes ==
    /\ pc = "awaitNext"
    /\ wake.kind # "none"
    /\ ContinueLoop(wake)
    /\ wake' = NoWake
    /\ UNCHANGED <<request, input, host, caught, outcome, errKind>>
    /\ UNCHANGED <<hasQueue, queue, closeReaction>>
    /\ UNCHANGED <<svcVars, obsVars, promiseVars, sshVars, envVars, pairVars, watchVars, bridgeVars, textVars>>

\* The consumer pulls again after a chunk: the loop calls queue.next().
PullAfterChunk ==
    /\ pc = "yieldedChunk"
    /\ LET r == ChunkQueueNext(queue)
       IN  /\ queue' = r.queue
           /\ ContinueLoop(r.result)
    /\ UNCHANGED <<request, input, host, caught, outcome, errKind>>
    /\ UNCHANGED <<hasQueue, wake, closeReaction>>
    /\ UNCHANGED <<svcVars, obsVars, promiseVars, sshVars, envVars, pairVars, watchVars, bridgeVars, textVars>>

\* The consumer pulls after the final result: the generator returns.
PullAfterResult ==
    /\ pc = "yieldedResult"
    /\ pc' = "done"
    /\ outcome' = "finished"
    /\ UNCHANGED <<request, input, host, caught, errKind, out>>
    /\ UNCHANGED <<svcVars, obsVars, queueVars, promiseVars, sshVars, envVars, pairVars, watchVars, bridgeVars, textVars>>

\* await finalizeResult(): executionPromise has settled. Resolved: runAfter
\* is called with the result and awaited. Rejected: the catch block.
Finalize ==
    /\ pc = "finalize"
    /\ execState # "pending"
    /\ IF execState = "resolved"
       THEN /\ calls' = [calls EXCEPT !.after = @ + 1]
            /\ pc' = "runAfter"
            /\ UNCHANGED <<caught, queue, wake>>
       ELSE EnterCatch(execErr, calls)
    /\ UNCHANGED <<request, input, host, outcome, errKind, out>>
    /\ UNCHANGED <<lookups, executeCalls, hasQueue, closeReaction>>
    /\ UNCHANGED <<svcVars, promiseVars, sshVars, envVars, pairVars, watchVars, bridgeVars, textVars>>

\* runAfter settles. On success logCommandResult, then the result is yielded.
\* A failing hook or logger call is caught by the same catch block.
AfterHookSettles ==
    /\ pc = "runAfter"
    /\ \E hookOk \in BOOLEAN, logOk \in BOOLEAN :
          IF ~hookOk
          THEN /\ EnterCatch("afterHook", calls)
               /\ UNCHANGED out
          ELSE IF ~logOk
               THEN /\ EnterCatch("logResult", [calls EXCEPT !.logResult = @ + 1])
                    /\ UNCHANGED out
               ELSE /\ calls' = [calls EXCEPT !.logResult = @ + 1]
                    /\ out' = Append(out, [kind |-> "result",
                                           exitCode |-> execValue.exitCode,
                                           stdout |-> execValue.stdout,
                                           stderr |-> execValue.stderr,
                                           timedOut |-> execValue.timedOut])
                    /\ pc' = "yieldedResult"
                    /\ UNCHANGED <<caught, queue, wake>>
    /\ UNCHANGED <<request, input, host, outcome, errKind>>
    /\ UNCHANGED <<lookups, executeCalls, hasQueue, closeReaction>>
    /\ UNCHANGED <<svcVars, promiseVars, sshVars, envVars, pairVars, watchVars, bridgeVars, textVars>>

\* Variant: the catch block rethrows without logCommandError.
ErrorHookSettlesNoLog ==
    /\ pc = "runError"
    /\ \E hookOk \in BOOLEAN : Propagate(IF hookOk THEN caught ELSE "errorHook")
    /\ UNCHANGED <<request, input, host, caught, out>>
    /\ UNCHANGED <<calls, lookups, executeCalls>>
    /\ UNCHANGED <<svcVars, queueVars, promiseVars, sshVars, envVars, pairVars, watchVars, bridgeVars, textVars>>

\* runError settles. On success logCommandError, then the caught error is
\* rethrown; a failing error hook or logger call propagates its own error.
ErrorHookSettles ==
    /\ pc = "runError"
    /\ \E hookOk \in BOOLEAN, logOk \in BOOLEAN :
          IF ~hookOk
          THEN /\ Propagate("errorHook")
               /\ UNCHANGED calls
          ELSE /\ calls' = [calls EXCEPT !.logError = @ + 1]
               /\ Propagate(IF logOk THEN caught ELSE "logError")
    /\ UNCHANGED <<request, input, host, caught, out>>
    /\ UNCHANGED <<lookups, executeCalls>>
    /\ UNCHANGED <<svcVars, queueVars, promiseVars, sshVars, envVars, pairVars, watchVars, bridgeVars, textVars>>

(***************************************************************************)
(* SshTransport.execute.                                                   *)
(***************************************************************************)
\* A resolveAuthConfig that hands whatever it obtained to the connection.
resolveAuthConfigUnchecked(h, creds) ==
    IF h.auth = "ssh-key" /\ creds # "ok" THEN "raw" ELSE "ok"

\* resolveAuthConfig: "ok", or what it throws. `creds` is what the
\* environment offers: a readable key file, SSH_AUTH_SOCK, a credential
\* command that runs. A missing key file and a failing credential command
\* throw a plain Error ("raw"); no agent socket at all, and a credential
\* command whose trimmed output is empty, throw RemoteTransportError('auth').
resolveAuthConfig(h, creds) ==
    CASE h.auth = "ssh-key" -> IF creds = "ok" THEN "ok" ELSE "raw"
      [] h.auth = "ssh-agent" ->
            IF h.authParam = "socket" \/ creds = "ok" THEN "ok" ELSE "auth"
      [] OTHER ->
            IF creds # "ok" THEN "raw"
            ELSE IF h.authParam = "blankCommand" THEN "auth" ELSE "ok"

\* Variant: the flag is not consulted, every host verifies against the store.
createHostVerifierIgnoresFlag(h, store) ==
    IF store = "missing" THEN "config"
    ELSE IF store = "empty" THEN "config"
    ELSE "predicate"

\* Variant: an empty store yields a predicate instead of failing closed.
createHostVerifierFailOpen(h, store) ==
    IF h.strictHostKeyChecking = "false" THEN "skip"
    ELSE IF store = "missing" THEN "config"
    ELSE "predicate"

\* createHostVerifier: "skip" (undefined: no verification), "predicate", or
\* the RemoteTransportError('config') of a missing or empty store.
createHostVerifier(h, store) ==
    IF h.strictHostKeyChecking = "false" THEN "skip"
    ELSE IF store = "missing" THEN "config"
    ELSE IF store = "empty" THEN "config"
    ELSE "predicate"

\* Whether createHostVerifier reads the trusted-key store.
readsStore(h) == h.strictHostKeyChecking # "false"

\* Variant: a timed-out result carries no output.
closeResultDropsPartial(st, code) ==
    IF st.timedOut
    THEN [exitCode |-> "null", stdout |-> <<>>, stderr |-> <<>>, timedOut |-> TRUE]
    ELSE [exitCode |-> code, stdout |-> st.stdout, stderr |-> st.stderr,
          timedOut |-> FALSE]

\* The result the 'close' handler resolves with.
closeResult(st, code) ==
    IF st.timedOut
    THEN [exitCode |-> "null", stdout |-> st.stdout, stderr |-> st.stderr,
          timedOut |-> TRUE]
    ELSE [exitCode |-> code, stdout |-> st.stdout, stderr |-> st.stderr,
          timedOut |-> FALSE]

\* clearTimeout(timeoutId) has an effect on an armed timer only.
clearTimeout(t) == IF t = "armed" THEN "cleared" ELSE t

\* A resolve that takes effect on a settled promise too.
ResolveOverwrites(value) ==
    /\ execState' = "resolved"
    /\ execValue' = value
    /\ pushedAtSettle' = nPushed
    /\ UNCHANGED <<execErr, failure>>

\* The promise execute returns settles at most once.
Resolve(value) ==
    IF execState = "pending"
    THEN /\ execState' = "resolved"
         /\ execValue' = value
         /\ pushedAtSettle' = nPushed
         /\ UNCHANGED <<execErr, failure>>
    ELSE UNCHANGED promiseVars

Reject(code, cause) ==
    IF execState = "pending"
    THEN /\ execState' = "rejected"
         /\ execErr' = code
         /\ failure' = cause
         /\ pushedAtSettle' = nPushed
         /\ UNCHANGED execValue
    ELSE UNCHANGED promiseVars

\* await resolveAuthConfig(host) settles; then createHostVerifier is called.
ResolveAuthSettles ==
    /\ tpc = "resolveAuth"
    /\ IF resolveAuthConfig(host, envCreds) = "ok"
       THEN /\ tpc' = "createHostVerifier"
            /\ storeReads' = IF readsStore(host) THEN storeReads + 1 ELSE storeReads
            /\ UNCHANGED promiseVars
       ELSE /\ Reject(enrichError(resolveAuthConfig(host, envCreds), "auth"), "credentials")
            /\ tpc' = "finished"
            /\ UNCHANGED storeReads
    /\ UNCHANGED <<conn, chan, timer, state, nPushed, authActs, connectAttempts,
                   hostVerifier, execRequests>>
    /\ UNCHANGED <<svcVars, genVars, obsVars, queueVars, envVars, pairVars, watchVars, bridgeVars, textVars>>

\* await createHostVerifier(host) settles; then the connect config is built,
\* the ready/error listeners are attached and ssh.connect is called.
CreateHostVerifierSettles ==
    /\ tpc = "createHostVerifier"
    /\ IF createHostVerifier(host, envStore) \in {"skip", "predicate"}
       THEN /\ hostVerifier' = createHostVerifier(host, envStore)
            /\ connectAttempts' = connectAttempts + 1
            /\ conn' = "connecting"
            /\ tpc' = "connecting"
            /\ UNCHANGED promiseVars
       ELSE /\ Reject(enrichError(createHostVerifier(host, envStore), "config"), "store")
            /\ tpc' = "finished"
            /\ UNCHANGED <<hostVerifier, connectAttempts, conn>>
    /\ UNCHANGED <<chan, timer, state, nPushed, authActs, storeReads, execRequests>>
    /\ UNCHANGED <<svcVars, genVars, obsVars, queueVars, envVars, pairVars, watchVars, bridgeVars, textVars>>

\* Variant: the timeout timer is armed when the connection is ready.
ConnectReadyArmsTimer ==
    /\ tpc = "connecting"
    /\ conn' = "open"
    /\ execRequests' = execRequests + 1
    /\ tpc' = "execOpening"
    /\ timer' = "armed"
    /\ UNCHANGED <<chan, state, nPushed, authActs, storeReads, connectAttempts,
                   hostVerifier>>
    /\ UNCHANGED <<svcVars, genVars, obsVars, queueVars, promiseVars, envVars, pairVars, watchVars, bridgeVars, textVars>>

\* 'ready': connectPromise resolves, the command is rewritten by applyCwd and
\* ssh.exec is called.
ConnectReady ==
    /\ tpc = "connecting"
    /\ conn' = "open"
    /\ execRequests' = execRequests + 1
    /\ tpc' = "execOpening"
    /\ UNCHANGED <<chan, timer, state, nPushed, authActs, storeReads, connectAttempts,
                   hostVerifier>>
    /\ UNCHANGED <<svcVars, genVars, obsVars, queueVars, promiseVars, envVars, pairVars, watchVars, bridgeVars, textVars>>

\* What the ssh2 client reports through 'error' before 'ready'.
ConnectFailures == {"network", "handshake", "authentication"}

\* Variant: the connect failure path rethrows without ssh.end().
ConnectErrorNoEnd ==
    /\ tpc = "connecting"
    /\ \E cause \in ConnectFailures : Reject(enrichError("raw", "connection"), cause)
    /\ tpc' = "finished"
    /\ UNCHANGED <<conn, chan, timer, state, nPushed, authActs, storeReads,
                   connectAttempts, hostVerifier, execRequests>>
    /\ UNCHANGED <<svcVars, genVars, obsVars, queueVars, envVars, pairVars, watchVars, bridgeVars, textVars>>

\* Variant: the catch around `await connectPromise` does not rethrow, and
\* execute goes on to ssh.exec.
ConnectErrorFallsThrough ==
    /\ tpc = "connecting"
    /\ conn' = "ended"
    /\ \E cause \in ConnectFailures : Reject(enrichError("raw", "connection"), cause)
    /\ execRequests' = execRequests + 1
    /\ tpc' = "execOpening"
    /\ UNCHANGED <<chan, timer, state, nPushed, authActs, storeReads, connectAttempts,
                   hostVerifier>>
    /\ UNCHANGED <<svcVars, genVars, obsVars, queueVars, envVars, pairVars, watchVars, bridgeVars, textVars>>

\* 'error' while connecting (the network, the handshake with its host key
\* check, or the remote rejecting the credentials): every cause is enriched
\* with 'connection', ssh.end() is called and the error is rethrown.
ConnectError ==
    /\ tpc = "connecting"
    /\ conn' = "ended"
    /\ \E cause \in ConnectFailures : Reject(enrichError("raw", "connection"), cause)
    /\ tpc' = "finished"
    /\ UNCHANGED <<chan, timer, state, nPushed, authActs, storeReads, connectAttempts,
                   hostVerifier, execRequests>>
    /\ UNCHANGED <<svcVars, genVars, obsVars, queueVars, envVars, pairVars, watchVars, bridgeVars, textVars>>

\* The ssh.exec callback: on error reject and ssh.end(); otherwise the timer
\* is armed and the data, close and error listeners are attached.
ExecCallback ==
    /\ tpc = "execOpening"
    /\ \E opened \in BOOLEAN :
          IF opened
          THEN /\ chan' = "open"
               /\ timer' = "armed"
               /\ tpc' = "streaming"
               /\ UNCHANGED <<conn, promiseVars>>
          ELSE /\ Reject(enrichError("raw", "execution"), "execOpen")
               /\ conn' = "ended"
               /\ tpc' = "finished"
               /\ UNCHANGED <<chan, timer>>
    /\ UNCHANGED <<state, nPushed, authActs, storeReads, connectAttempts, hostVerifier, execRequests>>
    /\ UNCHANGED <<svcVars, genVars, obsVars, queueVars, envVars, pairVars, watchVars, bridgeVars, textVars>>

\* Variant: the listeners only accumulate; nothing reaches the sink before
\* the channel closes.
StreamDataHeldBack ==
    /\ tpc = "streaming"
    /\ chan \in {"open", "closing"}
    /\ nPushed < MaxChunks
    /\ \E t \in ChunkTypes :
          state' = IF t = "stdout"
                   THEN [state EXCEPT !.stdout = Append(@, nPushed + 1)]
                   ELSE [state EXCEPT !.stderr = Append(@, nPushed + 1)]
    /\ nPushed' = nPushed + 1
    /\ UNCHANGED <<tpc, conn, chan, timer, authActs, storeReads, connectAttempts,
                   hostVerifier, execRequests>>
    /\ UNCHANGED <<calls, queue, wake, lookups, executeCalls, hasQueue, closeReaction>>
    /\ UNCHANGED <<svcVars, genVars, promiseVars, envVars, pairVars, watchVars, bridgeVars, textVars>>

\* 'data' on the stream or on its stderr: accumulate and forward to the sink.
\* The remote may still send while a requested close is in flight.
StreamData ==
    /\ tpc = "streaming"
    /\ chan \in {"open", "closing"}
    /\ nPushed < MaxChunks
    /\ \E t \in ChunkTypes :
          /\ state' = IF t = "stdout"
                      THEN [state EXCEPT !.stdout = Append(@, nPushed + 1)]
                      ELSE [state EXCEPT !.stderr = Append(@, nPushed + 1)]
          /\ collectorPush([type |-> t, n |-> nPushed + 1])
    /\ nPushed' = nPushed + 1
    /\ UNCHANGED <<tpc, conn, chan, timer, authActs, storeReads, connectAttempts,
                   hostVerifier, execRequests>>
    /\ UNCHANGED <<lookups, executeCalls, hasQueue, closeReaction>>
    /\ UNCHANGED <<svcVars, genVars, promiseVars, envVars, pairVars, watchVars, bridgeVars, textVars>>

\* The timeout callback: state.timedOut = true; stream.close().
TimerFires ==
    /\ timer = "armed"
    /\ timer' = "fired"
    /\ state' = [state EXCEPT !.timedOut = TRUE]
    /\ chan' = "closing"
    /\ UNCHANGED <<tpc, conn, nPushed, authActs, storeReads, connectAttempts, hostVerifier, execRequests>>
    /\ UNCHANGED <<svcVars, genVars, obsVars, queueVars, promiseVars, envVars, pairVars, watchVars, bridgeVars, textVars>>

\* 'close' on the stream: clear the timer, ssh.end(), resolve with the result.
\* After a channel error the promise is settled already and resolve is void.
StreamClose ==
    /\ tpc \in {"streaming", "errored"}
    /\ \E code \in ExitCodes : Resolve(closeResult(state, code))
    /\ timer' = clearTimeout(timer)
    /\ conn' = "ended"
    /\ chan' = "closed"
    /\ tpc' = "finished"
    /\ UNCHANGED <<state, nPushed, authActs, storeReads, connectAttempts, hostVerifier, execRequests>>
    /\ UNCHANGED <<svcVars, genVars, obsVars, queueVars, envVars, pairVars, watchVars, bridgeVars, textVars>>

\* 'error' on the stream: clear the timer, ssh.end(), reject. Ending the
\* connection takes its channel down; the stream's 'close' may still follow.
\* The listener stays attached, so an 'error' emitted after 'close' runs the
\* same code on the settled promise.
StreamError ==
    /\ \/ tpc = "streaming"
       \/ tpc = "finished" /\ chan = "closed"
    /\ timer' = clearTimeout(timer)
    /\ conn' = "ended"
    /\ chan' = "closed"
    /\ Reject(enrichError("raw", "execution"), "channel")
    /\ tpc' = IF tpc = "streaming" THEN "errored" ELSE tpc
    /\ UNCHANGED <<state, nPushed, authActs, storeReads, connectAttempts, hostVerifier, execRequests>>
    /\ UNCHANGED <<svcVars, genVars, obsVars, queueVars, envVars, pairVars, watchVars, bridgeVars, textVars>>

(***************************************************************************)
(* Two concurrent invocations on one CommandService and one SshTransport.  *)
(* A step is one run of one invocation, on the locals of that call. The    *)
(* hooks and the telemetry logger are on their normal path here (their     *)
(* failures are the subject of the actions above), so a hook await and the *)
(* run after it are one step.                                              *)
(***************************************************************************)
oneVars == <<svcVars, genVars, obsVars, queueVars, promiseVars, sshVars, envVars>>

\* Variant: one collector, built by the first call, serves every execute call.
sinkOfFirstCall(i) == "a"

\* The collector execute(context, collector) receives from invocation i is the
\* closure that invocation built over its own queue.
sinkOf(i) == i

\* collector.push(chunk) on the locals of the invocation that built it.
PairSink(r, chunk) ==
    IF r.hasQueue
    THEN LET q == ChunkQueuePush(r.queue, r.wake, chunk)
         IN  [r EXCEPT !.queue = q.queue, !.wake = q.wake]
    ELSE r

\* queue.close() on the locals of an invocation.
PairQueueClose(r) ==
    IF r.hasQueue
    THEN LET q == ChunkQueueClose(r.queue, r.wake)
         IN  [r EXCEPT !.queue = q.queue, !.wake = q.wake]
    ELSE r

\* The drain loop continues with the IteratorResult of queue.next().
PairContinueLoop(r, result) ==
    [r EXCEPT !.pc = CASE result.kind = "value" -> "yieldedChunk"
                       [] result.kind = "done" -> "finalize"
                       [] OTHER -> "awaitNext",
              !.out = IF result.kind = "value"
                      THEN Append(@, [kind |-> "chunk", type |-> result.value.type,
                                      n |-> result.value.n, from |-> result.value.from])
                      ELSE @]

\* The promise of an execute call settles at most once.
PairResolve(r, value) ==
    IF r.execState = "pending"
    THEN [r EXCEPT !.execState = "resolved", !.execValue = value]
    ELSE r

PairReject(r) ==
    IF r.execState = "pending" THEN [r EXCEPT !.execState = "rejected"] ELSE r

\* runCommand up to the first await of execute: findHost, the before hook,
\* start telemetry, the queue and the collector, transport.execute, and for a
\* streaming request the close reaction and the first queue.next().
PairStart(i) ==
    /\ invocations[i].pc = "created"
    /\ \E alias \in PairAliases[i], stream \in BOOLEAN :
          /\ findHost(config, alias) # NoHost
          /\ LET r == [invocations[i] EXCEPT !.host = findHost(config, alias),
                                             !.tpc = "resolveAuth"]
                 n == ChunkQueueNext(NewChunkQueue)
             IN  invocations' =
                    [invocations EXCEPT ![i] =
                        IF stream
                        THEN PairContinueLoop(
                                 [r EXCEPT !.hasQueue = TRUE, !.queue = n.queue,
                                           !.closeReaction = "registered"],
                                 n.result)
                        ELSE [r EXCEPT !.pc = "finalize"]]
    /\ UNCHANGED <<oneVars, watchVars, bridgeVars, textVars>>

\* await resolveAuthConfig(host) settles.
PairResolveAuthSettles(i) ==
    /\ invocations[i].tpc = "resolveAuth"
    /\ LET r == invocations[i]
       IN  invocations' =
              [invocations EXCEPT ![i] =
                  IF resolveAuthConfig(r.host, envCreds) = "ok"
                  THEN [r EXCEPT !.tpc = "createHostVerifier"]
                  ELSE [PairReject(r) EXCEPT !.tpc = "finished"]]
    /\ UNCHANGED <<oneVars, watchVars, bridgeVars, textVars>>

\* await createHostVerifier(host) settles; ssh.connect on this call's Client.
PairCreateHostVerifierSettles(i) ==
    /\ invocations[i].tpc = "createHostVerifier"
    /\ LET r == invocations[i]
       IN  invocations' =
              [invocations EXCEPT ![i] =
                  IF createHostVerifier(r.host, envStore) \in {"skip", "predicate"}
                  THEN [r EXCEPT !.tpc = "connecting", !.conn = "connecting"]
                  ELSE [PairReject(r) EXCEPT !.tpc = "finished"]]
    /\ UNCHANGED <<oneVars, watchVars, bridgeVars, textVars>>

\* 'ready' or 'error' on this call's Client.
PairConnectSettles(i) ==
    /\ invocations[i].tpc = "connecting"
    /\ \E ready \in BOOLEAN :
          LET r == invocations[i]
          IN  invocations' =
                 [invocations EXCEPT ![i] =
                     IF ready
                     THEN [r EXCEPT !.tpc = "execOpening", !.conn = "open"]
                     ELSE [PairReject(r) EXCEPT !.tpc = "finished", !.conn = "ended"]]
    /\ UNCHANGED <<oneVars, watchVars, bridgeVars, textVars>>

\* The ssh.exec callback of this call.
PairExecCallback(i) ==
    /\ invocations[i].tpc = "execOpening"
    /\ \E opened \in BOOLEAN :
          LET r == invocations[i]
          IN  invocations' =
                 [invocations EXCEPT ![i] =
                     IF opened
                     THEN [r EXCEPT !.tpc = "streaming", !.chan = "open",
                                    !.timer = "armed"]
                     ELSE [PairReject(r) EXCEPT !.tpc = "finished", !.conn = "ended"]]
    /\ UNCHANGED <<oneVars, watchVars, bridgeVars, textVars>>

\* 'data' on this call's stream: accumulate in this call's ExecutionState and
\* forward to the collector this call was given.
PairStreamData(i) ==
    /\ invocations[i].tpc = "streaming"
    /\ invocations[i].chan \in {"open", "closing"}
    /\ invocations[i].nPushed < MaxPairChunks
    /\ \E t \in ChunkTypes :
          LET r == invocations[i]
              chunk == [type |-> t, n |-> r.nPushed + 1, from |-> i]
              acc == [r EXCEPT !.state = IF t = "stdout"
                                         THEN [@ EXCEPT !.stdout = Append(@, chunk)]
                                         ELSE [@ EXCEPT !.stderr = Append(@, chunk)],
                               !.nPushed = @ + 1]
              a == [invocations EXCEPT ![i] = acc]
          IN  invocations' = [a EXCEPT ![sinkOf(i)] = PairSink(a[sinkOf(i)], chunk)]
    /\ UNCHANGED <<oneVars, watchVars, bridgeVars, textVars>>

\* This call's timeout callback.
PairTimerFires(i) ==
    /\ invocations[i].timer = "armed"
    /\ invocations' =
          [invocations EXCEPT ![i] =
              [@ EXCEPT !.timer = "fired", !.state = [@ EXCEPT !.timedOut = TRUE],
                        !.chan = "closing"]]
    /\ UNCHANGED <<oneVars, watchVars, bridgeVars, textVars>>

\* 'close' on this call's stream.
PairStreamClose(i) ==
    /\ invocations[i].tpc \in {"streaming", "errored"}
    /\ \E code \in ExitCodes :
          LET r == invocations[i]
          IN  invocations' =
                 [invocations EXCEPT ![i] =
                     [PairResolve(r, closeResult(r.state, code)) EXCEPT
                         !.timer = clearTimeout(@), !.conn = "ended",
                         !.chan = "closed", !.tpc = "finished"]]
    /\ UNCHANGED <<oneVars, watchVars, bridgeVars, textVars>>

\* 'error' on this call's stream.
PairStreamError(i) ==
    /\ invocations[i].tpc = "streaming"
    /\ invocations' =
          [invocations EXCEPT ![i] =
              [PairReject(@) EXCEPT !.timer = clearTimeout(@), !.conn = "ended",
                                    !.chan = "closed", !.tpc = "errored"]]
    /\ UNCHANGED <<oneVars, watchVars, bridgeVars, textVars>>

\* executionPromise.then(() => queue.close()).catch(() => queue.close())
PairCloseOnSettle(i) ==
    /\ invocations[i].closeReaction = "registered"
    /\ invocations[i].execState # "pending"
    /\ invocations' =
          [invocations EXCEPT ![i] = [PairQueueClose(@) EXCEPT !.closeReaction = "ran"]]
    /\ UNCHANGED <<oneVars, watchVars, bridgeVars, textVars>>

\* The pending next() of this invocation was resolved.
PairLoopResumes(i) ==
    /\ invocations[i].pc = "awaitNext"
    /\ invocations[i].wake.kind # "none"
    /\ invocations' =
          [invocations EXCEPT ![i] =
              [PairContinueLoop(@, invocations[i].wake) EXCEPT !.wake = NoWake]]
    /\ UNCHANGED <<oneVars, watchVars, bridgeVars, textVars>>

\* The consumer of this invocation pulls again after a chunk.
PairPullAfterChunk(i) ==
    /\ invocations[i].pc = "yieldedChunk"
    /\ LET r == invocations[i]
           n == ChunkQueueNext(r.queue)
       IN  invocations' =
              [invocations EXCEPT ![i] =
                  PairContinueLoop([r EXCEPT !.queue = n.queue], n.result)]
    /\ UNCHANGED <<oneVars, watchVars, bridgeVars, textVars>>

\* await finalizeResult() with the promise settled: the after hook, result
\* telemetry and the yield of the result; or the catch block, which closes
\* the queue, runs the error hook and error telemetry and rethrows.
PairFinalize(i) ==
    /\ invocations[i].pc = "finalize"
    /\ invocations[i].execState # "pending"
    /\ LET r == invocations[i]
       IN  invocations' =
              [invocations EXCEPT ![i] =
                  IF r.execState = "resolved"
                  THEN [r EXCEPT !.pc = "yieldedResult",
                                 !.out = Append(@, [kind |-> "result",
                                                    exitCode |-> r.execValue.exitCode,
                                                    stdout |-> r.execValue.stdout,
                                                    stderr |-> r.execValue.stderr,
                                                    timedOut |-> r.execValue.timedOut])]
                  ELSE [PairQueueClose(r) EXCEPT !.pc = "done", !.outcome = "error"]]
    /\ UNCHANGED <<oneVars, watchVars, bridgeVars, textVars>>

\* The consumer pulls after the result: the generator returns.
PairPullAfterResult(i) ==
    /\ invocations[i].pc = "yieldedResult"
    /\ invocations' =
          [invocations EXCEPT ![i] = [@ EXCEPT !.pc = "done", !.outcome = "finished"]]
    /\ UNCHANGED <<oneVars, watchVars, bridgeVars, textVars>>

(***************************************************************************)
(* The specifications.                                                     *)
(***************************************************************************)
Next ==
    \/ UpdateConfig
    \/ Start
    \/ BeforeHookSettles
    \/ CloseOnSettle
    \/ LoopResumes
    \/ PullAfterChunk
    \/ PullAfterResult
    \/ Finalize
    \/ AfterHookSettles
    \/ ErrorHookSettles
    \/ ResolveAuthSettles
    \/ CreateHostVerifierSettles
    \/ ConnectReady
    \/ ConnectError
    \/ ExecCallback
    \/ StreamData
    \/ TimerFires
    \/ StreamClose
    \/ StreamError

Spec == Init /\ [][Next]_vars

\* The known_hosts file has entries, so that a strict host gets as far as
\* streaming; credentials may still be unavailable.
InitLive ==
    /\ Init
    /\ envStore = "entries"

\* The same machine with the scheduling the run time gives. Promise reactions
\* are microtasks and run once their promise has settled (the close reaction,
\* the resumption of the drain loop, the await of executionPromise); the hooks
\* and the telemetry calls awaited by the generator return; the consumer keeps
\* pulling after each chunk. Nothing is assumed of the transport: it may never
\* settle.
SpecLive ==
    /\ InitLive
    /\ [][Next]_vars
    /\ WF_vars(CloseOnSettle)
    /\ WF_vars(LoopResumes)
    /\ WF_vars(PullAfterChunk)
    /\ WF_vars(Finalize)
    /\ WF_vars(AfterHookSettles)
    /\ WF_vars(ErrorHookSettles)

\* Two runCommand calls in flight on a service built with ConfigA, with the
\* trusted-key store in place (a missing store is the subject of Spec).
InitPair == Init /\ config = ConfigA /\ loaded = FALSE /\ envStore = "entries"

NextPair ==
    \E i \in Invocations :
       \/ PairStart(i)
       \/ PairResolveAuthSettles(i)
       \/ PairCreateHostVerifierSettles(i)
       \/ PairConnectSettles(i)
       \/ PairExecCallback(i)
       \/ PairStreamData(i)
       \/ PairTimerFires(i)
       \/ PairStreamClose(i)
       \/ PairStreamError(i)
       \/ PairCloseOnSettle(i)
       \/ PairLoopResumes(i)
       \/ PairPullAfterChunk(i)
       \/ PairFinalize(i)
       \/ PairPullAfterResult(i)

SpecPair == InitPair /\ [][NextPair]_vars

(***************************************************************************)
(* The configuration watcher of the server: bootstrap has loaded the file  *)
(* and built the service, watchConfig has been called with                 *)
(* service.updateConfig as its handler. A step is a change of the file, an *)
(* event of the file watcher, the debounce timer, the settling of one      *)
(* await of one load, or close().                                          *)
(***************************************************************************)
RemoveAt(seq, i) == [k \in 1..(Len(seq) - 1) |-> IF k < i THEN seq[k] ELSE seq[k + 1]]

\* Variant: the handler is called whatever loadConfig did.
safeInvokeAlwaysInstalls(i, r, src) ==
    /\ config' = updateConfig(config, r.hosts)
    /\ loaded' = TRUE
    /\ watch' = [watch EXCEPT
                   !.loads = RemoveAt(@, i),
                   !.handlerCalls = @ + 1,
                   !.handledAfterClose = IF watch.closed THEN @ + 1 ELSE @,
                   !.installed = r.hosts,
                   !.last = [source |-> src, error |-> r.error, hosts |-> r.hosts],
                   !.newestInstalled = @ \/ watch.loads[i].newest]

\* safeInvoke once loadConfig has settled with r, having read src: the
\* handler (service.updateConfig) on success, onError otherwise.
safeInvoke(i, r, src) ==
    IF r.error = "none"
    THEN /\ config' = updateConfig(config, r.hosts)
         /\ loaded' = TRUE
         /\ watch' = [watch EXCEPT
                        !.loads = RemoveAt(@, i),
                        !.handlerCalls = @ + 1,
                        !.handledAfterClose = IF watch.closed THEN @ + 1 ELSE @,
                        !.installed = r.hosts,
                        !.last = [source |-> src, error |-> r.error, hosts |-> r.hosts],
                        !.newestInstalled = @ \/ watch.loads[i].newest]
    ELSE /\ UNCHANGED svcVars
         /\ watch' = [watch EXCEPT
                        !.loads = RemoveAt(@, i),
                        !.onErrors = @ + 1,
                        !.last = [source |-> src, error |-> r.error, hosts |-> r.hosts]]

\* The file is written, replaced, removed or made unreadable. The file
\* watcher reports a file that appeared or changed, not one that went away.
FileChanges(files) ==
    /\ watch.changes < MaxFileChanges
    /\ \E f \in files \ {watch.file} :
          watch' = [watch EXCEPT
                      !.file = f,
                      !.changes = @ + 1,
                      !.pendingEvent = IF watch.closed \/ ~fileExists(f) THEN @ ELSE TRUE]
    /\ UNCHANGED <<svcVars, genVars, obsVars, queueVars, promiseVars, sshVars, envVars,
                   pairVars, bridgeVars, textVars>>

WatchFileChanges == FileChanges(WatchedFiles)

\* 'add' or 'change': scheduleReload restarts the debounce timer.
scheduleReload ==
    /\ ~watch.closed
    /\ watch.pendingEvent
    /\ watch' = [watch EXCEPT !.pendingEvent = FALSE, !.timer = "armed"]
    /\ UNCHANGED <<svcVars, genVars, obsVars, queueVars, promiseVars, sshVars, envVars,
                   pairVars, bridgeVars, textVars>>

\* The debounce timer fires: a safeInvoke starts and runs up to the await of
\* fileExists.
WatchTimerFires ==
    /\ watch.timer = "armed"
    /\ watch' = [watch EXCEPT
                   !.timer = "none",
                   !.loads = Append([k \in 1..Len(@) |-> [@[k] EXCEPT !.newest = FALSE]],
                                    NewLoad),
                   !.newestInstalled = FALSE]
    /\ UNCHANGED <<svcVars, genVars, obsVars, queueVars, promiseVars, sshVars, envVars,
                   pairVars, bridgeVars, textVars>>

\* await fileExists settles in load i: readFile is called, or loadConfig
\* ends there for a file that is not there.
WatchAccessSettles ==
    /\ \E i \in 1..Len(watch.loads) :
          /\ watch.loads[i].stage = "access"
          /\ IF fileExists(watch.file)
             THEN /\ watch' = [watch EXCEPT !.loads[i].stage = "read"]
                  /\ UNCHANGED svcVars
             ELSE safeInvoke(i, loadConfigMissing(watch.allowMissing), watch.file)
    /\ UNCHANGED <<genVars, obsVars, queueVars, promiseVars, sshVars, envVars,
                   pairVars, bridgeVars, textVars>>

\* readFile of load i reads the file as it is now (or fails on it); its
\* completion is delivered later.
WatchReadCompletes ==
    /\ \E i \in 1..Len(watch.loads) :
          /\ watch.loads[i].stage = "read"
          /\ watch' = [watch EXCEPT !.loads[i].stage = "deliver",
                                    !.loads[i].content = watch.file]
    /\ UNCHANGED <<svcVars, genVars, obsVars, queueVars, promiseVars, sshVars, envVars,
                   pairVars, bridgeVars, textVars>>

\* await readFile settles in load i: the content is parsed and validated
\* and safeInvoke goes on with the outcome.
WatchReadSettles ==
    /\ \E i \in 1..Len(watch.loads) :
          /\ watch.loads[i].stage = "deliver"
          /\ safeInvoke(i, loadConfigContents(watch.loads[i].content),
                        watch.loads[i].content)
    /\ UNCHANGED <<genVars, obsVars, queueVars, promiseVars, sshVars, envVars,
                   pairVars, bridgeVars, textVars>>

\* close(): the debounce timer is cleared and the file watcher closed; the
\* loads in flight are left to finish.
WatchClose ==
    /\ ~watch.closed
    /\ watch' = [watch EXCEPT !.closed = TRUE, !.timer = "none", !.pendingEvent = FALSE]
    /\ UNCHANGED <<svcVars, genVars, obsVars, queueVars, promiseVars, sshVars, envVars,
                   pairVars, bridgeVars, textVars>>

NextWatch ==
    \/ WatchFileChanges
    \/ scheduleReload
    \/ WatchTimerFires
    \/ WatchAccessSettles
    \/ WatchReadCompletes
    \/ WatchReadSettles
    \/ WatchClose

\* bootstrap loaded file f and built the service with it; the watcher's
\* options are those of the server (no allowMissing) or ask for allowMissing.
InitWatch ==
    /\ InitService
    /\ envStore = "entries"
    /\ envCreds = "ok"
    /\ bridge = NewBridge
    /\ InitText
    /\ loaded = TRUE
    /\ \E f \in {g \in WatchedFiles : loadConfigContents(g).error = "none"} :
          \E allowMissing \in BOOLEAN :
             /\ config = loadConfigContents(f).hosts
             /\ watch = NewWatch(f, allowMissing)

SpecWatch == InitWatch /\ [][NextWatch]_vars

(***************************************************************************)
(* One load on its own: the safeInvoke that watchConfig starts at once, on *)
(* a file in any state (it may have been rewritten since bootstrap read    *)
(* it) that keeps changing while loadConfig is suspended; the file watcher *)
(* stays silent.                                                           *)
(***************************************************************************)
LoadFileChanges == FileChanges(Files)

NextLoad ==
    \/ LoadFileChanges
    \/ WatchAccessSettles
    \/ WatchReadCompletes
    \/ WatchReadSettles

InitLoad ==
    /\ InitService
    /\ envStore = "entries"
    /\ envCreds = "ok"
    /\ bridge = NewBridge
    /\ InitText
    /\ config = ConfigA
    /\ loaded = FALSE
    /\ \E f \in Files :
          \E allowMissing \in BOOLEAN : watch = NewWatch(f, allowMissing)

SpecLoad == InitLoad /\ [][NextLoad]_vars

(***************************************************************************)
(* The streaming bridge on its own: one producer calling push and close,   *)
(* one consumer calling next() and awaiting each promise before the next   *)
(* call. A call is one step; the consumer's continuation after a resolved  *)
(* promise is a step of its own, so pushes and closes may come in between. *)
(***************************************************************************)
BridgePush ==
    /\ bridge.pushes < MaxBridgePushes
    /\ LET v == [type |-> "stdout", n |-> bridge.pushes + 1]
           r == ChunkQueuePush(bridge.queue, bridge.wake, v)
       IN bridge' =
            [bridge EXCEPT
               !.queue = r.queue,
               !.wake = r.wake,
               !.consumer = IF r.wake # bridge.wake THEN "resuming" ELSE @,
               !.pushes = @ + 1,
               !.accepted = IF bridge.queue.closed THEN @ ELSE Append(@, v),
               !.dropped = IF bridge.queue.closed THEN @ \cup {v} ELSE @]
    /\ UNCHANGED <<oneVars, pairVars, watchVars, textVars>>

BridgeClose ==
    /\ bridge.closes < MaxBridgeCloses
    /\ LET r == ChunkQueueClose(bridge.queue, bridge.wake)
       IN bridge' =
            [bridge EXCEPT
               !.queue = r.queue,
               !.wake = r.wake,
               !.consumer = IF r.wake # bridge.wake THEN "resuming" ELSE @,
               !.closes = @ + 1,
               !.wokenByClose = IF r.wake # bridge.wake THEN @ + 1 ELSE @,
               !.bufferedAtClose =
                   IF bridge.queue.closed THEN @ ELSE Len(bridge.queue.items)]
    /\ UNCHANGED <<oneVars, pairVars, watchVars, textVars>>

\* The consumer calls next(): the promise it gets is resolved already, or
\* pending with the waiter recorded.
BridgeNext ==
    /\ bridge.consumer = "idle"
    /\ bridge.nexts < MaxBridgeNexts
    /\ LET r == ChunkQueueNext(bridge.queue)
       IN bridge' =
            [bridge EXCEPT
               !.queue = r.queue,
               !.wake = r.result,
               !.consumer = IF r.result = NoWake THEN "suspended" ELSE "resuming",
               !.nexts = @ + 1]
    /\ UNCHANGED <<oneVars, pairVars, watchVars, textVars>>

\* The consumer's await returns with what the promise was resolved with.
BridgeResume ==
    /\ bridge.consumer = "resuming"
    /\ bridge' =
         [bridge EXCEPT
            !.wake = NoWake,
            !.consumer = "idle",
            !.delivered = IF bridge.wake.kind = "value"
                          THEN Append(@, bridge.wake.value) ELSE @,
            !.ends = IF bridge.wake.kind = "done" THEN @ + 1 ELSE @]
    /\ UNCHANGED <<oneVars, pairVars, watchVars, textVars>>

NextQueue ==
    \/ BridgePush
    \/ BridgeClose
    \/ BridgeNext
    \/ BridgeResume

InitQueue ==
    /\ Init
    /\ config = ConfigA
    /\ loaded = FALSE
    /\ envStore = "entries"
    /\ envCreds = "ok"

SpecQueue == InitQueue /\ [][NextQueue]_vars

(***************************************************************************)
(* applyCwd on its own: execute rewrites the command and hands it to       *)
(* ssh.exec, for every request cwd, host default and command of the input  *)
(* sets.                                                                   *)
(***************************************************************************)
\* A service that runs no command, watches the file of Init and drives no
\* bridge: the rest of the machine while a function is applied on its own.
InitIdle ==
    /\ InitService
    /\ config = ConfigA
    /\ loaded = FALSE
    /\ envStore = "entries"
    /\ envCreds = "ok"
    /\ watch = NewWatch([kind |-> "toml", doc |-> <<RawWeb, RawDb>>], FALSE)
    /\ bridge = NewBridge

\* const execCommand = applyCwd(command, options.cwd ?? host.workingDirectory);
\* ssh.exec(execCommand, ...)
ExecuteApplyCwd ==
    /\ execCommand.stage = "connected"
    /\ execCommand' =
          [execCommand EXCEPT
             !.sent = applyCwd(execCommand.command,
                               selectCwd(execCommand.cwd, execCommand.workingDirectory)),
             !.stage = "exec"]
    /\ UNCHANGED <<oneVars, pairVars, watchVars, bridgeVars, knownHosts>>

InitCwd ==
    /\ InitIdle
    /\ knownHosts = NewKnownHosts
    /\ \E c \in CommandTexts, d \in {Absent} \cup {Some(t) : t \in Directories},
          w \in WorkingDirectories :
          execCommand = [NewExecCommand EXCEPT !.command = c, !.cwd = d,
                                               !.workingDirectory = w,
                                               !.stage = "connected"]

SpecCwd == InitCwd /\ [][ExecuteApplyCwd]_vars

(***************************************************************************)
(* createHostVerifier on its own: the verifier is built from a known_hosts *)
(* file and applied to the keys a server may present.                      *)
(***************************************************************************)
\* createHostVerifier(host), the file existing: no verifier when
\* strictHostKeyChecking is false, a config error when the file gives no
\* entry, else the predicate over the entries and the candidates.
CreateHostVerifier ==
    /\ knownHosts.stage = "called"
    /\ knownHosts' =
          IF knownHosts.host.strictHostKeyChecking = "false"
          THEN [knownHosts EXCEPT !.stage = "skipped"]
          ELSE LET entries == loadKnownHostsEntries(knownHosts.raw)
               IN  IF Len(entries) = 0
                   THEN [knownHosts EXCEPT !.stage = "configError"]
                   ELSE [knownHosts EXCEPT
                           !.stage = "built",
                           !.entries = entries,
                           !.candidates = buildHostCandidates(knownHosts.host)]
    /\ UNCHANGED <<oneVars, pairVars, watchVars, bridgeVars, execCommand>>

\* ssh2 calls the verifier with the key the server presents.
VerifyKey ==
    /\ knownHosts.stage \in {"built", "verified"}
    /\ \E key \in HostKeys :
          knownHosts' =
             [knownHosts EXCEPT
                !.stage = "verified",
                !.key = key,
                !.accepted = verifierAccepts(knownHosts.entries, knownHosts.candidates, key)]
    /\ UNCHANGED <<oneVars, pairVars, watchVars, bridgeVars, execCommand>>

NextVerify ==
    \/ CreateHostVerifier
    \/ VerifyKey

InitVerify ==
    /\ InitIdle
    /\ execCommand = NewExecCommand
    /\ \E store \in SeqsUpTo(StoreLines, MaxStoreLines), h \in VerifiedHosts :
          knownHosts = [NewKnownHosts EXCEPT !.stage = "called", !.store = store,
                                             !.raw = FileText(store), !.host = h]

SpecVerify == InitVerify /\ [][NextVerify]_vars

(***************************************************************************)
(* Properties.                                                             *)
(***************************************************************************)
\* The request passed validation and named a host of the snapshot.
Accepted == pc # "created" /\ host # NoHost

\* A request's shape as the specification words it, field by field.
InvalidShape(r) ==
    \/ r.hostAlias \in {"absent", "illtyped", "empty"}
    \/ r.command \in {"absent", "illtyped", "empty"}
    \/ r.timeoutMs \in {"illtyped", "fraction", "zero", "negative"}
    \/ r.stream = "illtyped"
    \/ r.cwd = "illtyped"
    \/ r.env = "illtyped"

AliasIn(cfg, alias) == \E i \in 1..Len(cfg) : cfg[i].alias = alias

\* Positions of the Execution Result in the yielded sequence, and the
\* sequence numbers of the chunks yielded.
ResultAt == {i \in 1..Len(out) : out[i].kind = "result"}
ChunkNs == {out[i].n : i \in {j \in 1..Len(out) : out[j].kind = "chunk"}}
TerminalSeen == ResultAt # {} \/ outcome = "error"

\* C1: an accepted request ends in exactly one terminal outcome: one
\* Execution Result, yielded last, and then a normal return; or one propagated
\* error and no result. Never both, and a finished generator never neither.
C1_ExactlyOneTerminalOutcome ==
    Accepted =>
       /\ Cardinality(ResultAt) <= 1
       /\ ResultAt \subseteq {Len(out)}
       /\ outcome = "error" => ResultAt = {}
       /\ outcome = "finished" => Cardinality(ResultAt) = 1
       /\ pc = "done" <=> outcome \in {"finished", "error"}

C1_Witness ==
    /\ Accepted
    /\ pc = "done"
    /\ outcome = "finished"
    /\ Len(out) >= 2

\* C2: for a streaming request, once the result is yielded or the error is
\* propagated, every chunk pushed before execute settled has been yielded,
\* and the result is the last item yielded.
C2_ChunksPrecedeTerminal ==
    (Accepted /\ input.stream = "true") =>
       /\ TerminalSeen => \A n \in 1..pushedAtSettle : n \in ChunkNs
       /\ \A i \in ResultAt : i = Len(out)

C2_Witness ==
    /\ Accepted
    /\ input.stream = "true"
    /\ execState = "rejected"
    /\ pushedAtSettle >= 1
    /\ outcome = "error"
    /\ errKind = "execution"

\* C3: within one invocation the after hook and the error hook are never both
\* invoked, and result telemetry and error telemetry are never both emitted.
C3_SuccessAndErrorExclusive ==
    /\ ~(calls.after > 0 /\ calls.error > 0)
    /\ ~(calls.logResult > 0 /\ calls.logError > 0)

\* C4 as claimed: every invocation that propagates an error has invoked the
\* error hook once and emitted error telemetry once.
C4_EveryErrorNotifiedOnce ==
    outcome = "error" => (calls.error = 1 /\ calls.logError = 1)

\* C4 as amended: an error propagated after transport.execute was called has
\* invoked the error hook once, and error telemetry once unless the error hook
\* itself failed; an error propagated before that invoked neither.
C4_ErrorNotifiedOnceAfterExecute ==
    outcome = "error" =>
       IF executeCalls = 0
       THEN calls.error = 0 /\ calls.logError = 0
       ELSE /\ calls.error = 1
            /\ calls.logError = IF errKind = "errorHook" THEN 0 ELSE 1

C4_Witness ==
    /\ outcome = "error"
    /\ errKind = "execution"
    /\ executeCalls = 1
    /\ calls.error = 1
    /\ calls.logError = 1

\* C5: when an Execution Result has been yielded, the before hook, the after
\* hook and result telemetry have each been invoked once, and chunk telemetry
\* once per chunk the transport pushed.
C5_ResultAfterHooksOnce ==
    ResultAt # {} =>
       /\ calls.before = 1
       /\ calls.after = 1
       /\ calls.logResult = 1
       /\ calls.logChunk = nPushed

C5_Witness ==
    /\ ResultAt # {}
    /\ input.stream = "true"
    /\ nPushed >= 2
    /\ calls.logChunk = nPushed

\* C6: a well-formed request whose alias is not in the snapshot at the time
\* of the call fails at once with a Config error, with no execute call, no
\* hook call and no telemetry call, then or later.
C6_UnknownAliasFailsUntouched ==
    [][ /\ (/\ pc = "created"
            /\ pc' # "created"
            /\ ~InvalidShape(request')
            /\ ~AliasIn(config, request'.hostAlias))
           => (/\ pc' = "done"
               /\ outcome' = "error"
               /\ errKind' = "config"
               /\ executeCalls' = 0
               /\ tpc' = "idle"
               /\ calls' = NoCalls)
        /\ (pc = "done" /\ executeCalls = 0)
           => (calls' = calls /\ executeCalls' = 0 /\ tpc' = "idle")
      ]_vars

C6_Witness ==
    /\ pc = "done"
    /\ request.hostAlias = "web"
    /\ ~InvalidShape(request)
    /\ host = NoHost
    /\ errKind = "config"
    /\ lookups = 1

\* C7: a request that fails shape validation fails with a Config error and
\* no hook, telemetry, registry lookup or execute call has happened.
C7_InvalidShapeFailsFirst ==
    (pc # "created" /\ InvalidShape(request)) =>
       /\ pc = "done"
       /\ outcome = "error"
       /\ errKind = "config"
       /\ calls = NoCalls
       /\ lookups = 0
       /\ executeCalls = 0
       /\ tpc = "idle"

C7_Witness ==
    /\ pc = "done"
    /\ request.timeoutMs = "zero"
    /\ errKind = "config"
    /\ lookups = 0

\* C8: once the timeout timer has fired the channel is being closed, execute
\* settles only by resolving with timedOut and a null exit code, and that
\* result goes through the success path, never the error path.
C8_TimeoutIsAResult ==
    /\ timer = "fired" => chan \in {"closing", "closed"}
    /\ (state.timedOut /\ execState # "pending") =>
          (/\ execState = "resolved"
           /\ execValue.timedOut
           /\ execValue.exitCode = "null")
    /\ (execState = "resolved" /\ execValue.timedOut) =>
          (calls.error = 0 /\ calls.logError = 0 /\ outcome # "error")

StrictWithUnusableStore ==
    /\ executeCalls > 0
    /\ host.strictHostKeyChecking = "true"
    /\ envStore \in {"missing", "empty"}

\* C10 as claimed: with strict verification and a missing or empty store,
\* execute fails with a Config error before any credential resolution or
\* connection attempt.
C10_ConfigBeforeAnyAuthActivity ==
    StrictWithUnusableStore =>
       /\ authActs = 0
       /\ connectAttempts = 0
       /\ execState # "pending" => (execState = "rejected" /\ execErr = "config")

\* C10 as amended: with strict verification and a missing or empty store,
\* execute never attempts a connection; credential resolution runs first, and
\* execute fails with a Config error when it succeeds, with an Auth error and
\* without reading the store when it fails.
C10_ConfigBeforeAnyConnection ==
    StrictWithUnusableStore =>
       /\ connectAttempts = 0
       /\ conn = "none"
       /\ execState # "resolved"
       /\ execState = "rejected" =>
             execErr = IF envCreds = "ok" THEN "config" ELSE "auth"
       /\ envCreds # "ok" => storeReads = 0

C10_Witness ==
    /\ StrictWithUnusableStore
    /\ envCreds = "ok"
    /\ execState = "rejected"
    /\ execErr = "config"
    /\ storeReads = 1

\* C11: for a host whose strictHostKeyChecking is false, execute never reads
\* the trusted-key store, never rejects with a Config error, and the
\* connection is attempted with no verification predicate.
C11_DisabledNeverReadsStore ==
    (executeCalls > 0 /\ host.strictHostKeyChecking = "false") =>
       /\ storeReads = 0
       /\ ~(execState = "rejected" /\ execErr = "config")
       /\ hostVerifier \in {"none", "skip"}
       /\ connectAttempts > 0 => hostVerifier = "skip"

C11_Witness ==
    /\ host.strictHostKeyChecking = "false"
    /\ envStore = "missing"
    /\ connectAttempts = 1
    /\ hostVerifier = "skip"
    /\ storeReads = 0
    /\ execState = "resolved"

\* C12: a host whose strictHostKeyChecking is not specified is handled like
\* one with the flag false: the store is not read, no Config error about the
\* store can occur and the connection carries no verification predicate.
C12_UnsetFlagMeansDisabled ==
    (executeCalls > 0 /\ host.strictHostKeyChecking = "unset") =>
       /\ storeReads = 0
       /\ ~(execState = "rejected" /\ execErr = "config")
       /\ hostVerifier \in {"none", "skip"}

\* C13: when execute rejects because credential resolution, verifier
\* construction or connection establishment failed, ssh.exec was never
\* called, no channel exists, no chunk reached the sink or the consumer and
\* no result was produced.
C13_EarlyFailureSendsNothing ==
    (execState = "rejected"
     /\ failure \in {"credentials", "store"} \cup ConnectFailures) =>
       /\ execRequests = 0
       /\ chan = "none"
       /\ timer = "unset"
       /\ nPushed = 0
       /\ calls.logChunk = 0
       /\ ChunkNs = {}
       /\ execValue = NoResult
       /\ ResultAt = {}

C13_Witness ==
    /\ execState = "rejected"
    /\ failure = "handshake"
    /\ connectAttempts = 1
    /\ execRequests = 0
    /\ input.stream = "true"
    /\ outcome = "error"
    /\ out = <<>>

\* The error kind the taxonomy assigns to each failing event.
KindOfFailure(f) ==
    CASE f \in {"credentials", "authentication"} -> "auth"
      [] f = "store" -> "config"
      [] f \in {"network", "handshake"} -> "connection"
      [] f \in {"execOpen", "channel"} -> "execution"
      [] OTHER -> "none"

\* C14: an error execute rejects with carries the kind of what failed: Auth
\* for credential resolution and for credentials the remote rejects, Config
\* for the trusted-key store, Connection for the network and the handshake,
\* Execution for the exec channel.
C14_ErrorKindNamesPhase ==
    execState = "rejected" => execErr = KindOfFailure(failure)

\* C15: the host of an invocation is the one findHost returned from the
\* snapshot current at resolution; from then on the host and the parsed
\* request never change, a step that replaces the snapshot changes nothing
\* else, and the verifier the transport built is the one of that host.
C15_HostFixedAtResolution ==
    [][ /\ (pc = "created" /\ pc' = "runBefore") =>
              host' = findHost(config, request'.hostAlias)
        /\ pc # "created" => (host' = host /\ input' = input)
        /\ config' # config =>
              UNCHANGED <<genVars, obsVars, queueVars, promiseVars, sshVars>>
        /\ hostVerifier' # "none" => hostVerifier' = createHostVerifier(host', envStore')
      ]_vars

C15_Witness ==
    /\ Accepted
    /\ host = HostDb
    /\ findHost(config, input.hostAlias) = HostDbReloaded
    /\ hostVerifier = "predicate"
    /\ ResultAt # {}

\* C16: a registry returned by configuration loading and installed in the
\* orchestrator has pairwise distinct aliases, so findHost has at most one
\* candidate for any alias.
C16_LoadedAliasesDistinct ==
    loaded =>
       \A i, j \in 1..Len(config) : config[i].alias = config[j].alias => i = j

\* The invocations whose chunks the locals r of one invocation hold: in the
\* items it yielded, its queue and pending next(), its accumulators and the
\* result of its execute call.
FromOf(seq) == {seq[k].from : k \in 1..Len(seq)}
ChunkOwners(r) ==
    {r.out[k].from : k \in {j \in 1..Len(r.out) : r.out[j].kind = "chunk"}}
    \cup UNION {FromOf(r.out[k].stdout) \cup FromOf(r.out[k].stderr) :
                  k \in {j \in 1..Len(r.out) : r.out[j].kind = "result"}}
    \cup FromOf(r.queue.items)
    \cup (IF r.wake.kind = "value" THEN {r.wake.value.from} ELSE {})
    \cup FromOf(r.state.stdout) \cup FromOf(r.state.stderr)
    \cup FromOf(r.execValue.stdout) \cup FromOf(r.execValue.stderr)

\* C17: of two concurrent invocations, each holds only chunks its own
\* execute call produced, and a step that changes the connection, channel,
\* timer, accumulator, queue, yielded items or outcome of one of them leaves
\* everything of the other as it was.
C17_InvocationsIndependent ==
    [][ \A i \in Invocations :
          /\ ChunkOwners(invocations'[i]) \subseteq {i}
          /\ invocations'[i] # invocations[i] =>
                \A j \in Invocations \ {i} : invocations'[j] = invocations[j]
      ]_vars

C17_Witness ==
    /\ invocations["a"].host = invocations["b"].host
    /\ invocations["a"].pc = "yieldedChunk"
    /\ invocations["a"].state.timedOut
    /\ invocations["a"].execState = "rejected"
    /\ invocations["b"].pc = "done"
    /\ invocations["b"].outcome = "finished"
    /\ Len(invocations["b"].out) = 2
    /\ invocations["b"].out[2].exitCode = "0"
    /\ ~invocations["b"].out[2].timedOut

\* The sequence numbers of the chunks the bridge holds: buffered, or handed
\* to the pending next().
BridgeNs ==
    {queue.items[k].n : k \in 1..Len(queue.items)}
    \cup (IF wake.kind = "value" THEN {wake.value.n} ELSE {})

\* C18: in the very step a fragment arrives, while execute is unsettled, it
\* is accumulated, logged, and for a streaming request placed in the bridge
\* (buffered last, or handed to the suspended consumer); and every fragment
\* received so far is in the bridge or already yielded, settled or not.
C18_ForwardedOnArrival ==
    [][ /\ nPushed' = nPushed + 1 =>
              /\ execState' = "pending"
              /\ Len(state'.stdout) + Len(state'.stderr) = nPushed'
              /\ calls'.logChunk = calls.logChunk + 1
              /\ hasQueue =>
                    \/ wake'.kind = "value" /\ wake'.value.n = nPushed'
                    \/ /\ Len(queue'.items) = Len(queue.items) + 1
                       /\ queue'.items[Len(queue'.items)].n = nPushed'
        /\ hasQueue' => \A n \in 1..nPushed' : n \in ChunkNs' \cup BridgeNs'
      ]_vars

C18_Witness ==
    /\ Accepted
    /\ input.stream = "true"
    /\ execState = "pending"
    /\ chan = "open"
    /\ timer = "armed"
    /\ pc = "yieldedChunk"
    /\ Len(out) = 1
    /\ out[1].kind = "chunk"

\* C19: every chunk the transport hands to the sink is logged once; without
\* stream = true there is no bridge and no chunk is yielded, and the finished
\* sequence is exactly the result, or empty with a propagated error; with
\* stream = true the bridge exists from the execute call on.
C19_SinkLogsAlwaysStreamsOnRequest ==
    /\ calls.logChunk = nPushed
    /\ (Accepted /\ input.stream # "true") =>
          /\ ~hasQueue
          /\ queue = NewChunkQueue
          /\ wake = NoWake
          /\ ChunkNs = {}
          /\ pc = "done" =>
                \/ outcome = "finished" /\ Len(out) = 1 /\ out[1].kind = "result"
                \/ outcome = "error" /\ out = <<>>
    /\ (Accepted /\ input.stream = "true" /\ executeCalls > 0) => hasQueue

C19_Witness ==
    /\ Accepted
    /\ input.stream = "false"
    /\ nPushed = 2
    /\ calls.logChunk = 2
    /\ pc = "done"
    /\ outcome = "finished"
    /\ out[1].stdout # <<>>

\* C20: a failing telemetry call never fails the invocation: no logging
\* error is propagated to the consumer or sends the invocation to its catch
\* block, and a finished invocation whose start was logged has made its
\* execute call.
C20_LoggingFailureHarmless ==
    /\ errKind \notin {"logStart", "logResult", "logError"}
    /\ caught \notin {"logStart", "logResult", "logError"}
    /\ (pc = "done" /\ calls.logStart > 0) => executeCalls = 1


\* C25: credential-command authentication whose command prints nothing but
\* whitespace, and agent authentication with neither an explicit socket path
\* nor an ambient agent socket, make execute reject with an Auth error before
\* any connection attempt.
NoCredentialMaterial ==
    \/ host.auth = "credential-command" /\ host.authParam = "blankCommand"
                                        /\ envCreds = "ok"
    \/ host.auth = "ssh-agent" /\ host.authParam = "unset" /\ envCreds # "ok"

C25_BlankCredentialsAreAuthErrors ==
    (NoCredentialMaterial /\ tpc \notin {"idle", "resolveAuth"}) =>
       /\ execState = "rejected"
       /\ execErr = "auth"
       /\ failure = "credentials"
       /\ connectAttempts = 0
       /\ conn = "none"

C25_Witness ==
    /\ host.auth = "credential-command"
    /\ host.authParam = "blankCommand"
    /\ envCreds = "ok"
    /\ execState = "rejected"
    /\ execErr = "auth"
    /\ connectAttempts = 0


\* C27: an execute call moves through credential resolution, verifier
\* construction, connection, exec-channel open and streaming in that order,
\* one phase at a time or straight to its end when a phase fails, never
\* backwards; its promise settles at most once, and what the first of channel
\* close, channel error or exec-open error settled is never changed by a
\* later event.
PhaseRank(p) ==
    CASE p = "idle" -> 0
      [] p = "resolveAuth" -> 1
      [] p = "createHostVerifier" -> 2
      [] p = "connecting" -> 3
      [] p = "execOpening" -> 4
      [] p = "streaming" -> 5
      [] p = "errored" -> 6
      [] OTHER -> 7

C27_PhasesInOrderOneOutcome ==
    [][/\ tpc' # tpc =>
            /\ PhaseRank(tpc') > PhaseRank(tpc)
            /\ PhaseRank(tpc') <= 5 =>
                  /\ PhaseRank(tpc') = PhaseRank(tpc) + 1
                  /\ execState' = "pending"
            /\ PhaseRank(tpc') >= 6 => execState' # "pending"
       /\ execState' # execState => (execState = "pending" /\ PhaseRank(tpc') >= 6)
       /\ execState # "pending" => UNCHANGED <<execState, execValue, execErr, failure>>
      ]_vars

C27_Witness ==
    /\ tpc = "finished"
    /\ execState = "rejected"
    /\ failure = "channel"
    /\ chan = "closed"


\* C28: on a ChunkQueue used by one producer and one consumer, what next()
\* has returned, followed by what it has resolved for the consumer and by
\* what is still buffered, is exactly the sequence of items pushed before
\* close, in push order; once next() has reported the end, every one of them
\* has been returned.
BridgeInFlight ==
    IF bridge.wake.kind = "value" THEN <<bridge.wake.value>> ELSE <<>>

C28_BridgeDeliversPushedInOrder ==
    /\ bridge.delivered \o BridgeInFlight \o bridge.queue.items = bridge.accepted
    /\ \A i, j \in 1..Len(bridge.delivered) :
          i < j => bridge.delivered[i].n < bridge.delivered[j].n
    /\ (bridge.ends > 0 \/ bridge.wake.kind = "done") =>
          /\ bridge.queue.closed
          /\ bridge.delivered = bridge.accepted

C28_Witness ==
    /\ bridge.ends > 0
    /\ Len(bridge.delivered) = 3
    /\ bridge.bufferedAtClose = 2

\* C29: a close() on a closed ChunkQueue changes nothing and resolves
\* nothing; a close() that finds the consumer suspended in next() resolves it
\* with the end of the sequence in that call; a next() on a closed queue with
\* an empty buffer returns the end of the sequence without suspending.
C29_CloseIdempotentAndWakes ==
    [][/\ bridge'.closes # bridge.closes =>
            /\ bridge.queue.closed =>
                  /\ bridge'.queue = bridge.queue
                  /\ bridge'.wake = bridge.wake
                  /\ bridge'.consumer = bridge.consumer
                  /\ bridge'.wokenByClose = bridge.wokenByClose
            /\ (~bridge.queue.closed /\ bridge.consumer = "suspended") =>
                  /\ bridge'.wake = WakeDone
                  /\ bridge'.consumer = "resuming"
                  /\ ~bridge'.queue.pending
            /\ bridge'.queue.closed
       /\ (bridge'.nexts # bridge.nexts /\ bridge.queue.closed
             /\ bridge.queue.items = <<>>) =>
            /\ bridge'.wake = WakeDone
            /\ bridge'.consumer = "resuming"
            /\ ~bridge'.queue.pending
       /\ bridge'.wokenByClose <= 1
      ]_vars

C29_Witness ==
    /\ bridge.closes = 2
    /\ bridge.wokenByClose = 1
    /\ bridge.ends = 2

\* C30: a push on a closed ChunkQueue returns normally and leaves the
\* buffer, the closed flag and the consumer as they were, and the item it was
\* given is never returned by next().
BridgeDelivered == {bridge.delivered[i] : i \in 1..Len(bridge.delivered)}

C30_PushOnClosedIsSilent ==
    [][/\ (bridge'.pushes # bridge.pushes /\ bridge.queue.closed) =>
            /\ bridge'.queue = bridge.queue
            /\ bridge'.wake = bridge.wake
            /\ bridge'.consumer = bridge.consumer
            /\ bridge'.delivered = bridge.delivered
       /\ bridge.dropped \cap BridgeDelivered = {}
       /\ \A v \in bridge.dropped :
            /\ bridge.wake.value # v
            /\ \A i \in 1..Len(bridge.queue.items) : bridge.queue.items[i] # v
      ]_vars

C30_Witness ==
    /\ bridge.dropped # {}
    /\ bridge.ends > 0
    /\ bridge.delivered # <<>>
    /\ bridge.nexts = MaxBridgeNexts


\* What the latest load to finish read, as the validation schemas see it.
LoadFailed(f) == f.kind # "toml" \/ ~remoteServerConfigSchema(f.doc)

\* C21: with the watcher as the server sets it up, a reload that fails
\* (file missing, unreadable, unparsable or invalid) calls onError and not
\* the change handler and leaves the orchestrator's registry as it was; the
\* handler is only ever called with a registry that passed validation, and
\* nothing else replaces the registry.
C21_FailedReloadKeepsRegistry ==
    [][~watch.allowMissing =>
         /\ (Len(watch'.loads) < Len(watch.loads) /\ LoadFailed(watch'.last.source)) =>
               /\ watch'.handlerCalls = watch.handlerCalls
               /\ watch'.onErrors = watch.onErrors + 1
               /\ config' = config
               /\ \A a \in {"web", "db", "ghost"} : findHost(config', a) = findHost(config, a)
         /\ watch'.handlerCalls # watch.handlerCalls =>
               /\ watch'.last.source.kind = "toml"
               /\ remoteServerConfigSchema(watch'.last.source.doc)
               /\ config' = coerceConfig(watch'.last.source.doc).hosts
               /\ watch'.onErrors = watch.onErrors
         /\ config' # config => watch'.handlerCalls # watch.handlerCalls
      ]_vars

C21_Witness ==
    /\ ~watch.allowMissing
    /\ watch.handlerCalls > 0
    /\ watch.onErrors > 0
    /\ watch.last.source.kind = "unparsable"
    /\ watch.last.error = "ConfigLoadError"
    /\ config = watch.installed
    /\ config # <<>>

\* C22: loading a file that holds the example host entry of the README
\* returns a registry with that host.
C22_ReadmeExampleLoads ==
    watch.last.source = [kind |-> "toml", doc |-> <<RawReadme>>] =>
       /\ watch.last.error = "none"
       /\ \E i \in 1..Len(watch.last.hosts) : watch.last.hosts[i].alias = "staging-web"

\* C23: a returned registry has as many hosts as the document, in the same
\* order, each with port and strictHostKeyChecking set (22 and false when the
\* document omits them) and otherwise equal to its entry in the document.
AsWritten(h) ==
    [alias |-> h.alias, host |-> h.host, username |-> h.username, port |-> h.port,
     auth |-> h.auth, authParam |-> h.authParam,
     strictHostKeyChecking |-> h.strictHostKeyChecking, unknownKeys |-> "none"]

C23_DefaultsFilledRestKept ==
    (watch.last.source.kind = "toml" /\ watch.last.error = "none") =>
       /\ Len(watch.last.hosts) = Len(watch.last.source.doc)
       /\ \A i \in 1..Len(watch.last.hosts) :
             AsWritten(watch.last.hosts[i]) =
                [watch.last.source.doc[i] EXCEPT
                   !.port = IF @ = "unset" THEN "22" ELSE @,
                   !.strictHostKeyChecking = IF @ = "unset" THEN "false" ELSE @]

\* C24: a load ends with a validated registry or with a ConfigLoadError: a
\* missing file is a ConfigLoadError, or an empty host list if allowMissing
\* is set; an unreadable file, a file that is not TOML, and a document with
\* an empty host list, an ssh-key host without privateKeyPath, a host
\* without username or an unknown key are each a ConfigLoadError.
ValidatedHost(h) ==
    /\ h.alias # ""
    /\ h.host # "unset"
    /\ h.username # "unset"
    /\ h.port \in {"22", "2222"}
    /\ h.strictHostKeyChecking \in {"true", "false"}
    /\ \/ h.auth = "ssh-key" /\ h.authParam = "keyPath"
       \/ h.auth = "ssh-agent" /\ h.authParam \in {"unset", "socket"}
       \/ h.auth = "credential-command" /\ h.authParam \in {"command", "blankCommand"}

SchemaViolation(doc) ==
    \/ doc = <<>>
    \/ \E i \in 1..Len(doc) :
          \/ doc[i].alias = ""
          \/ doc[i].username = "unset"
          \/ doc[i].auth = "ssh-key" /\ doc[i].authParam = "unset"
          \/ doc[i].port = "0"
          \/ doc[i].strictHostKeyChecking = "illtyped"
          \/ doc[i].unknownKeys # "none"

C24_ValidatedOrConfigLoadError ==
    watch.last.source.kind # "none" =>
       /\ watch.last.error \in {"none", "ConfigLoadError"}
       /\ watch.last.error = "none" =>
             \/ /\ watch.last.hosts # <<>>
                /\ \A i \in 1..Len(watch.last.hosts) : ValidatedHost(watch.last.hosts[i])
             \/ /\ watch.last.source.kind = "missing"
                /\ watch.allowMissing
                /\ watch.last.hosts = <<>>
       /\ watch.last.source.kind \in {"unreadable", "unparsable"} =>
             watch.last.error = "ConfigLoadError"
       /\ (watch.last.source.kind = "toml" /\ SchemaViolation(watch.last.source.doc)) =>
             watch.last.error = "ConfigLoadError"

\* C26: a second updateConfig with the content of the one before it leaves
\* every alias resolving as it did after the first.
C26_UpdateConfigIdempotent ==
    [][(/\ watch'.handlerCalls = watch.handlerCalls + 1
        /\ watch.handlerCalls > 0
        /\ watch'.installed = watch.installed) =>
           \A a \in {"web", "db", "ghost"} : findHost(config', a) = findHost(config, a)
      ]_vars

C26_Witness ==
    /\ watch.handlerCalls = 2
    /\ watch.changes = 0
    /\ watch.loads = <<>>
    /\ config = watch.installed
    /\ findHost(config, "db") # NoHost


\* C38: once the most recently started load of the watcher has handed its
\* registry to the orchestrator, no load started before it replaces that
\* registry, so what is installed when all loads are done is what the most
\* recently started one read.
C38_LoadsTakeEffectInStartOrder ==
    [][watch.newestInstalled => config' = config]_vars

\* C39: after close() on the watcher the change handler is not called
\* again, neither by a debounced reload nor by a load in flight at the time
\* of close.
C39_NoHandlerCallAfterClose ==
    /\ watch.handledAfterClose = 0
    /\ watch.closed => watch.timer = "none"

\* C40: on a ChunkQueue used by one consumer a waiter is recorded only while
\* the buffer is empty and the queue is not closed, exactly when the
\* consumer is suspended in next() with nothing resolved for it.
C40_WaiterOnlyOnEmptyOpenBridge ==
    /\ bridge.queue.pending =>
          /\ bridge.queue.items = <<>>
          /\ ~bridge.queue.closed
          /\ bridge.wake = NoWake
    /\ bridge.queue.pending <=> bridge.consumer = "suspended"
    /\ bridge.queue.items # <<>> => bridge.consumer # "suspended"

C40_Witness ==
    /\ bridge.queue.pending
    /\ bridge.consumer = "suspended"
    /\ bridge.delivered # <<>>
    /\ bridge.pushes = MaxBridgePushes


\* C32: transport.execute is called only in the run in which the before
\* hook has settled successfully, right after the start event was logged;
\* when the before hook rejects, execute is never called, no start event is
\* logged and the rejection reaches the consumer.
C32_ExecuteOnlyAfterBeforeHook ==
    [][/\ executeCalls' # executeCalls =>
            /\ pc = "runBefore"
            /\ calls.before = 1
            /\ calls.logStart = 0
            /\ calls'.logStart = 1
            /\ executeCalls = 0
            /\ tpc = "idle"
            /\ tpc' = "resolveAuth"
            /\ errKind' = "none"
       /\ calls'.logStart # calls.logStart => (pc = "runBefore" /\ calls.before = 1)
       /\ errKind' = "beforeHook" =>
            /\ executeCalls' = 0
            /\ calls'.logStart = 0
            /\ tpc' = "idle"
            /\ outcome' = "error"
            /\ pc' = "done"
      ]_vars

C32_Witness ==
    /\ errKind = "beforeHook"
    /\ outcome = "error"
    /\ calls.before = 1
    /\ executeCalls = 0

\* C34: the stdout and stderr of the result execute resolves with are the
\* data of the stdout and stderr chunks handed to the sink during the call,
\* in arrival order; a timed-out result carries what was received up to the
\* close of the channel.
SinkData(t) ==
    LET sel == SelectSeq(calls.chunks, LAMBDA c : c.type = t)
    IN  [k \in 1..Len(sel) |-> sel[k].n]

C34_ResultIsConcatenationOfChunks ==
    execState = "resolved" =>
       /\ execValue.stdout = SinkData("stdout")
       /\ execValue.stderr = SinkData("stderr")
       /\ Len(execValue.stdout) + Len(execValue.stderr) = Len(calls.chunks)
       /\ \A k \in 1..Len(calls.chunks) : calls.chunks[k].n = k

C34_Witness ==
    /\ execState = "resolved"
    /\ execValue.timedOut
    /\ execValue.stdout # <<>>
    /\ execValue.stderr # <<>>

\* C35: for a streaming invocation the chunks of each channel yielded to the
\* consumer are, with tag and data as the transport handed them to the sink,
\* the first ones the transport received on that channel, in that order.
YieldedChunks(t) ==
    LET sel == SelectSeq(out, LAMBDA o : o.kind = "chunk" /\ o.type = t)
    IN  [k \in 1..Len(sel) |-> sel[k].n]

ReceivedOn(t) == IF t = "stdout" THEN state.stdout ELSE state.stderr

C37_TimerOnlyOnceChannelOpen ==
    /\ tpc \in {"idle", "resolveAuth", "createHostVerifier", "connecting", "execOpening"} =>
          /\ timer = "unset"
          /\ ~state.timedOut
          /\ execState = "pending"
          /\ chan = "none"
    /\ timer # "unset" => (chan # "none" /\ execRequests = 1)
    /\ (execState = "resolved" /\ execValue.timedOut) => timer = "fired"

C37_Witness ==
    /\ execState = "resolved"
    /\ execValue.timedOut
    /\ timer = "fired"
    /\ chan = "closed"


\* C31: once the transport call of a streaming invocation has settled, the
\* bridge is eventually closed, and a consumer that keeps pulling eventually
\* has every chunk the sink was handed followed by the final result or the
\* propagated error.
TransportSettled == hasQueue /\ execState # "pending"

AllChunksYielded ==
    Len(SelectSeq(out, LAMBDA o : o.kind = "chunk")) = Len(calls.chunks)

C31_SettledStreamDrainsAndEnds ==
    /\ TransportSettled ~> queue.closed
    /\ TransportSettled ~> (TerminalSeen /\ AllChunksYielded /\ pc # "awaitNext")

C31_Witness ==
    /\ hasQueue
    /\ execState = "rejected"
    /\ queue.closed
    /\ outcome = "error"
    /\ Len(out) = MaxChunks
    /\ AllChunksYielded


\* A POSIX shell reading one word of `text` from position i: blanks before
\* the word are skipped; between single quotes every character stands for
\* itself; outside them a backslash makes the next character stand for
\* itself and a blank ends the word. The result is the word and the position
\* after it; `open` tells that the text ended inside quotes.
RECURSIVE ShellWord(_, _, _, _, _)
ShellWord(text, i, word, started, quoted) ==
    IF i > Len(text)
    THEN [word |-> word, next |-> i, open |-> quoted]
    ELSE IF quoted
         THEN IF text[i] = "'"
              THEN ShellWord(text, i + 1, word, TRUE, FALSE)
              ELSE ShellWord(text, i + 1, Append(word, text[i]), TRUE, TRUE)
         ELSE CASE text[i] = "'" -> ShellWord(text, i + 1, word, TRUE, TRUE)
                [] text[i] = "\\" ->
                      IF i + 1 > Len(text)
                      THEN [word |-> word, next |-> i + 1, open |-> FALSE]
                      ELSE ShellWord(text, i + 2, Append(word, text[i + 1]), TRUE, FALSE)
                [] text[i] = " " ->
                      IF started
                      THEN [word |-> word, next |-> i, open |-> FALSE]
                      ELSE ShellWord(text, i + 1, word, FALSE, FALSE)
                [] OTHER -> ShellWord(text, i + 1, Append(word, text[i]), TRUE, FALSE)

\* `sent` is: cd, one quoted word that reads as `dir`, then && and `command`.
ChangesDirectoryTo(sent, dir, command) ==
    LET w1 == ShellWord(sent, 1, <<>>, FALSE, FALSE)
        w2 == ShellWord(sent, w1.next, <<>>, FALSE, FALSE)
    IN  /\ w1.word = <<"c", "d">>
        /\ sent[w1.next + 1] = "'"
        /\ ~w2.open
        /\ w2.word = dir
        /\ sent[w2.next - 1] = "'"
        /\ SubSeq(sent, w2.next, Len(sent)) = <<" ", "&", "&", " ">> \o command

\* The quoting alone: whenever the command is rewritten, the shell reads the
\* directory change back as the directory that was selected.
RewrittenCommandReadsBack ==
    (execCommand.stage = "exec" /\ execCommand.sent # execCommand.command) =>
       ChangesDirectoryTo(execCommand.sent,
                          selectCwd(execCommand.cwd, execCommand.workingDirectory).text,
                          execCommand.command)

\* C36: when the request names a working directory, else when the host has
\* a default one, the command given to ssh.exec is cd to that directory,
\* single-quoted so that the shell reads back exactly the directory, followed
\* by && and the original command; with neither, the command is unchanged.
C36_CwdQuotedOrCommandUnchanged ==
    execCommand.stage = "exec" =>
       IF execCommand.cwd.present /\ execCommand.cwd.text # <<>>
       THEN ChangesDirectoryTo(execCommand.sent, execCommand.cwd.text,
                               execCommand.command)
       ELSE IF execCommand.workingDirectory.present
            THEN ChangesDirectoryTo(execCommand.sent,
                                    execCommand.workingDirectory.text,
                                    execCommand.command)
            ELSE execCommand.sent = execCommand.command


\* The names the claim lists for a host: address, address:port,
\* [address]:port and alias, the port being 22 when the host has none.
ClaimedCandidates(h) ==
    LET port == toDecimal(IF h.port.present THEN h.port.n ELSE 22)
    IN  {h.host, h.host \o <<":">> \o port,
         <<"[">> \o h.host \o <<"]", ":">> \o port, h.alias}

\* The lines of the file that are entries: three fields or more, not a
\* comment, not blank, not starting with @ or |.
UsableLines(store) == {i \in 1..Len(store) : store[i].kind \in {"entry", "indented"}}

Reversed(seq) == [i \in 1..Len(seq) |-> seq[Len(seq) + 1 - i]]

\* C33: a presented key is accepted exactly when some usable line of the
\* file names one of the host's candidates and carries the base64 text of
\* the key; the same file with its lines in reverse order gives the same
\* verdict; and the entries are the usable lines, one each, in order.
C33_AcceptedIffSomeEntryMatches ==
    knownHosts.stage = "verified" =>
       /\ knownHosts.accepted <=>
             \E i \in UsableLines(knownHosts.store) :
                /\ \E k \in 1..Len(knownHosts.store[i].names) :
                      knownHosts.store[i].names[k] \in ClaimedCandidates(knownHosts.host)
                /\ knownHosts.store[i].key = base64(knownHosts.key)
       /\ knownHosts.accepted =
             verifierAccepts(loadKnownHostsEntries(FileText(Reversed(knownHosts.store))),
                          knownHosts.candidates, knownHosts.key)
       /\ Len(knownHosts.entries) = Cardinality(UsableLines(knownHosts.store))
       /\ \A e \in 1..Len(knownHosts.entries) :
             \E i \in UsableLines(knownHosts.store) :
                /\ knownHosts.entries[e].hostnames = knownHosts.store[i].names
                /\ knownHosts.entries[e].key = knownHosts.store[i].key

C33_Witness ==
    /\ knownHosts.stage = "verified"
    /\ knownHosts.accepted
    /\ Len(knownHosts.store) = MaxStoreLines
    /\ knownHosts.store[1].kind = "marker"
    /\ knownHosts.store[2].kind = "indented"
    /\ knownHosts.key = <<1>>

=============================================================================
